---- MODULE Spec2Model ----
(***************************************************************************)
(* Model of the client-side data/state layer of Al-Qur'an Interaktif:      *)
(*   StorageManager (src/src/modules/storage.js)  bookmarks, history,      *)
(*                                                settings, theme          *)
(*   QuranAPI       (src/src/modules/api.js)      getCachedData            *)
(*   AuthManager    (src/src/modules/auth.js)     accounts and session     *)
(*                                                                         *)
(* localStorage is modelled as reliable: each key holds the JSON value     *)
(* last written under it (JSON.stringify followed by JSON.parse returns    *)
(* the same value for the numbers, strings, arrays and objects stored      *)
(* here).  Date.now() is the variable clock, in milliseconds counted from  *)
(* the start of the run.  Strings that the code inspects character by      *)
(* character (user names, passwords, bookmark identifiers) are sequences   *)
(* of one-character strings.                                               *)
(***************************************************************************)
EXTENDS Integers, Sequences, FiniteSets, TLC

VARIABLES
    bookmarks,      \* localStorage['quran_bookmarks'] : [surat, ayat]
    history,        \* localStorage['quran_history']
    settings,       \* localStorage['quran_settings']
    theme,          \* localStorage['quran_theme']
    cache,          \* QuranAPI._cache : key -> [data, timestamp], Null without an entry
    inflight,       \* getCachedData calls suspended at `await fetchFunction()`
    fetchCount,     \* number of producer invocations per key
    users,          \* localStorage['quran_users']
    session,        \* localStorage['quran_session'] or Null
    currentUser,    \* localStorage['quran_current_user'] or Null
    idCounter,      \* number of ids handed out by generateUserId
    clock,          \* Date.now()
    ticks,          \* number of clock advances so far
    lastOp,         \* the operation performed by the last step, its input and result
    addedSurat,     \* chapters whose addBookmark('surat') has not been followed by an operation on them
    visitLog,       \* the chapters passed to addHistory, oldest first
    regLog,         \* successful registrations whose account was not changed since
    opCount,        \* number of operations performed so far
    state,          \* QuranApp.state : currentSurat, tafsirData, currentQari, currentAudio, isPlaying
    page,           \* what the elements 'surat-header' and 'ayat-list' show
    loads,          \* loadSuratDetail calls suspended at `await Promise.all(...)`
    audios,         \* the Audio elements created by playAyatAudio, oldest first
    lookups,        \* playAyatAudio calls suspended at `await this.api.getAyatAudioUrl(...)`
    callLog,        \* the chapters asked of loadSuratDetail, the loads applied, the playAyatAudio calls
    requests,       \* fetchAPI calls suspended at `await fetch(url)`
    httpCount,      \* number of fetch(url) calls per endpoint
    answered,       \* per endpoint, the last response fetchAPI returned and its time
    exported        \* the texts exportData() and createBackup() returned, with the store they were taken in

storeVars   == <<bookmarks, history, settings, theme>>
gatewayVars == <<cache, inflight, fetchCount>>
authVars    == <<users, session, currentUser, idCounter>>
ghostVars   == <<addedSurat, visitLog, regLog>>
controllerVars == <<state, page, loads, audios, lookups, callLog>>
requestVars == <<requests, httpCount, answered>>
appVars     == <<controllerVars, requestVars, exported>>
vars == <<bookmarks, history, settings, theme, cache, inflight, fetchCount,
          users, session, currentUser, idCounter, clock, ticks, lastOp,
          addedSurat, visitLog, regLog, opCount, appVars>>

\* null / undefined of the source
Null == <<>>

\* result of an operation that returns, and of one that throws
Ok(v)  == [ok |-> TRUE, val |-> v]
Err(e) == [ok |-> FALSE, err |-> e]

Min(a, b) == IF a < b THEN a ELSE b

(***************************************************************************)
(* Bounds of the model                                                     *)
(***************************************************************************)
MaxTicks == 2
MaxOps == 3
MaxAuthOps == 3
MaxUsers == 2
MaxHistoryLen == 4
MaxLoads == 2
MaxPlays == 2

(***************************************************************************)
(* Strings                                                                 *)
(***************************************************************************)
DigitChars == <<"0", "1", "2", "3", "4", "5", "6", "7", "8", "9">>

\* `${n}` for a non-negative integer n
RECURSIVE ToDigits(_)
ToDigits(n) ==
    IF n < 10 THEN <<DigitChars[n + 1]>>
    ELSE ToDigits(n \div 10) \o <<DigitChars[(n % 10) + 1]>>

\* `${suratId}-${ayatNumber}`
BookmarkKey(suratId, ayatNumber) == ToDigits(suratId) \o <<"-">> \o ToDigits(ayatNumber)

\* String.prototype.split(sep) for a one-character separator
RECURSIVE Split(_, _)
Split(s, sep) ==
    IF \A i \in DOMAIN s : s[i] # sep THEN <<s>>
    ELSE LET i == CHOOSE k \in DOMAIN s : s[k] = sep /\ \A j \in 1..(k - 1) : s[j] # sep
         IN  <<SubSeq(s, 1, i - 1)>> \o Split(SubSeq(s, i + 1, Len(s)), sep)

\* NaN (and undefined, where a number is expected): strictly equal to nothing
NaN == 0 - 1

DigitValue(ch) == (CHOOSE k \in DOMAIN DigitChars : DigitChars[k] = ch) - 1

RECURSIVE DecimalValue(_)
DecimalValue(s) ==
    IF s = <<>> THEN 0
    ELSE 10 * DecimalValue(SubSeq(s, 1, Len(s) - 1)) + DigitValue(s[Len(s)])

\* Number(str) for strings of decimal digits; the empty string gives 0,
\* any other character gives NaN
Number(s) ==
    IF s = <<>> THEN 0
    ELSE IF \A i \in DOMAIN s : \E k \in DOMAIN DigitChars : DigitChars[k] = s[i]
         THEN DecimalValue(s)
         ELSE NaN

\* a === b on numbers
StrictEq(a, b) == a # NaN /\ b # NaN /\ a = b

\* const [suratId, ayatNumber] = identifier.split('-').map(Number)
ParseIdentifier(identifier) ==
    LET parts == Split(identifier, "-")
    IN  [suratId    |-> Number(parts[1]),
         ayatNumber |-> IF Len(parts) >= 2 THEN Number(parts[2]) ELSE NaN]

(***************************************************************************)
(* Chapters and verses handed to the store by the application controller   *)
(***************************************************************************)
ChapterIds == {1, 114}

\* the chapter object built by getSuratDetail (fields the store reads)
Chapter(n) ==
    [nomor |-> n, nama |-> <<"nama", n>>, namaLatin |-> <<"namaLatin", n>>,
     jumlahAyat |-> 7, tempatTurun |-> "Mekah"]

\* (chapter id, verse ordinal) pairs that can be bookmarked
AyatIds == {<<1, 1>>, <<1, 12>>, <<11, 2>>}

\* bookmarkData built by toggleAyatBookmark
AyatData(s, a) ==
    [suratId |-> s, suratNama |-> <<"nama", s>>, nomorAyat |-> a,
     teksArab |-> <<"arab", s, a>>, teksIndonesia |-> <<"indo", s, a>>]

(***************************************************************************)
(* StorageManager: defaults                                                *)
(***************************************************************************)
DefaultBookmarks == [surat |-> <<>>, ayat |-> <<>>]

DefaultSettings ==
    [autoPlayAudio |-> FALSE, showTransliteration |-> TRUE, showTranslation |-> TRUE,
     fontSize |-> "medium", qariPreference |-> "", notificationsEnabled |-> TRUE]

(***************************************************************************)
(* StorageManager: bookmarks                                               *)
(***************************************************************************)
\* bookmarks.surat.some(s => s.nomor === nomor)
SuratExists_Never(list, nomor) == FALSE

SuratExists(list, nomor) == \E i \in DOMAIN list : StrictEq(list[i].nomor, nomor)

\* a.suratId === suratId && a.nomorAyat === nomorAyat
AyatMatches_SuratOnly(a, suratId, nomorAyat) == StrictEq(a.suratId, suratId)

AyatMatches(a, suratId, nomorAyat) ==
    StrictEq(a.suratId, suratId) /\ StrictEq(a.nomorAyat, nomorAyat)

AyatExists(list, suratId, nomorAyat) ==
    \E i \in DOMAIN list : AyatMatches(list[i], suratId, nomorAyat)

\* the value addBookmark writes back under BOOKMARKS
addBookmark(bm, type, data, now) ==
    IF type = "surat" THEN
        IF ~SuratExists(bm.surat, data.nomor)
        THEN [bm EXCEPT !.surat =
                 <<[nomor |-> data.nomor, nama |-> data.nama, namaLatin |-> data.namaLatin,
                    jumlahAyat |-> data.jumlahAyat, tempatTurun |-> data.tempatTurun,
                    timestamp |-> now]>> \o @]
        ELSE bm
    ELSE IF type = "ayat" THEN
        IF ~AyatExists(bm.ayat, data.suratId, data.nomorAyat)
        THEN [bm EXCEPT !.ayat =
                 <<[suratId |-> data.suratId, suratNama |-> data.suratNama,
                    nomorAyat |-> data.nomorAyat, teksArab |-> data.teksArab,
                    teksIndonesia |-> data.teksIndonesia, timestamp |-> now]>> \o @]
        ELSE bm
    ELSE bm

\* the value removeBookmark writes back under BOOKMARKS
removeBookmark(bm, type, identifier) ==
    IF type = "surat" THEN
        [bm EXCEPT !.surat = SelectSeq(@, LAMBDA s : ~StrictEq(s.nomor, identifier))]
    ELSE IF type = "ayat" THEN
        LET id == ParseIdentifier(identifier)
        IN  [bm EXCEPT !.ayat =
                SelectSeq(@, LAMBDA a : ~AyatMatches(a, id.suratId, id.ayatNumber))]
    ELSE bm

isBookmarked(bm, type, identifier) ==
    IF type = "surat" THEN SuratExists(bm.surat, identifier)
    ELSE IF type = "ayat" THEN
        LET id == ParseIdentifier(identifier)
        IN  AyatExists(bm.ayat, id.suratId, id.ayatNumber)
    ELSE FALSE

(***************************************************************************)
(* StorageManager: history                                                 *)
(***************************************************************************)
HistoryCap == 50

\* history.filter(h => h.nomor !== nomor)
withoutChapter_Keep(h, nomor) == h

withoutChapter(h, nomor) == SelectSeq(h, LAMBDA e : ~StrictEq(e.nomor, nomor))

\* if (history.length > 50) history = history.slice(0, 50)
truncateHistory_None(h) == h

truncateHistory(h) == IF Len(h) > HistoryCap THEN SubSeq(h, 1, HistoryCap) ELSE h

\* the value addHistory writes back under HISTORY
addHistory(h, suratData, now) ==
    truncateHistory(
        <<[nomor |-> suratData.nomor, nama |-> suratData.nama,
           namaLatin |-> suratData.namaLatin, timestamp |-> now]>>
        \o withoutChapter(h, suratData.nomor))

(***************************************************************************)
(* Initial state: empty localStorage, then the three constructors          *)
(***************************************************************************)
CacheKeys == {"surat_list", "surat_1"}

InitStore ==
    /\ bookmarks = DefaultBookmarks
    /\ history = <<>>
    /\ settings = DefaultSettings
    /\ theme = "light"

\* the endpoints asked of fetchAPI: the chapter list, one chapter, its commentary
Endpoints == {"/surat", "/surat/1", "/tafsir/1"}

InitGateway ==
    /\ cache = [k \in CacheKeys |-> Null]
    /\ inflight = {}
    /\ fetchCount = [k \in CacheKeys |-> 0]
    /\ requests = {}
    /\ httpCount = [e \in Endpoints |-> 0]
    /\ answered = [e \in Endpoints |-> Null]

InitAuth ==
    /\ users = <<>>
    /\ session = Null
    /\ currentUser = Null
    /\ idCounter = 0

\* this.state of the QuranApp constructor, and the page before any chapter is shown
InitController ==
    /\ state = [currentSurat |-> Null, tafsirData |-> <<>>, currentQari |-> "",
                currentAudio |-> Null, isPlaying |-> FALSE]
    /\ page = [show |-> "empty"]
    /\ loads = {}
    /\ audios = <<>>
    /\ lookups = {}
    /\ callLog = [requested |-> <<>>, applied |-> <<>>, plays |-> 0]

InitRest ==
    /\ InitController
    /\ exported = [export |-> Null, backup |-> Null]
    /\ clock = 0
    /\ ticks = 0
    /\ opCount = 0
    /\ lastOp = [op |-> "new", arg |-> Null, res |-> Null]
    /\ addedSurat = {}
    /\ regLog = {}

Init ==
    /\ InitStore
    /\ InitGateway
    /\ InitAuth
    /\ InitRest
    /\ visitLog = <<>>

\* time passes: Date.now() grows by d milliseconds
Tick(d) ==
    /\ ticks < MaxTicks
    /\ clock' = clock + d
    /\ ticks' = ticks + 1
    /\ lastOp' = [op |-> "tick", arg |-> d, res |-> Null]
    /\ UNCHANGED <<storeVars, gatewayVars, authVars, ghostVars, appVars, opCount>>

(***************************************************************************)
(* Bookmark operations                                                     *)
(***************************************************************************)
\* a call that ends by throwing a TypeError to its caller: reading a property
\* of undefined, or calling a method the value does not have
Throws(op, arg) == [op |-> op, arg |-> arg, res |-> Null, thrown |-> "TypeError"]

\* bookmarks.surat / bookmarks.ayat can be read and is a list
HasList(bm, type) == type \in DOMAIN bm

AddBookmarkSurat(c) ==
    /\ IF HasList(bookmarks, "surat")
       THEN /\ bookmarks' = addBookmark(bookmarks, "surat", c, clock)
            /\ addedSurat' = addedSurat \cup {c.nomor}
            /\ lastOp' = [op |-> "addBookmark",
                          arg |-> [type |-> "surat", data |-> c,
                                   again |-> c.nomor \in addedSurat],
                          res |-> TRUE]
       ELSE /\ lastOp' = Throws("addBookmark", [type |-> "surat", data |-> c, again |-> FALSE])
            /\ UNCHANGED <<bookmarks, addedSurat>>
    /\ UNCHANGED <<history, settings, theme, gatewayVars, authVars, clock, ticks,
                   visitLog, appVars, regLog, opCount>>

AddBookmarkAyat(d) ==
    /\ IF HasList(bookmarks, "ayat")
       THEN /\ bookmarks' = addBookmark(bookmarks, "ayat", d, clock)
            /\ lastOp' = [op |-> "addBookmark",
                          arg |-> [type |-> "ayat", data |-> d, again |-> FALSE],
                          res |-> TRUE]
       ELSE /\ lastOp' = Throws("addBookmark", [type |-> "ayat", data |-> d, again |-> FALSE])
            /\ UNCHANGED bookmarks
    /\ UNCHANGED <<history, settings, theme, gatewayVars, authVars, clock, ticks,
                   ghostVars, appVars, opCount>>

RemoveBookmarkSurat(nomor) ==
    /\ IF HasList(bookmarks, "surat")
       THEN /\ bookmarks' = removeBookmark(bookmarks, "surat", nomor)
            /\ addedSurat' = addedSurat \ {nomor}
            /\ lastOp' = [op |-> "removeBookmark",
                          arg |-> [type |-> "surat", identifier |-> nomor],
                          res |-> TRUE]
       ELSE /\ lastOp' = Throws("removeBookmark", [type |-> "surat", identifier |-> nomor])
            /\ UNCHANGED <<bookmarks, addedSurat>>
    /\ UNCHANGED <<history, settings, theme, gatewayVars, authVars, clock, ticks,
                   visitLog, appVars, regLog, opCount>>

RemoveBookmarkAyat(suratId, ayatNumber) ==
    LET identifier == BookmarkKey(suratId, ayatNumber)
    IN  /\ IF HasList(bookmarks, "ayat")
           THEN /\ bookmarks' = removeBookmark(bookmarks, "ayat", identifier)
                /\ lastOp' = [op |-> "removeBookmark",
                              arg |-> [type |-> "ayat", identifier |-> identifier,
                                       suratId |-> suratId, ayatNumber |-> ayatNumber,
                                       was |-> isBookmarked(bookmarks, "ayat", identifier)],
                              res |-> TRUE]
           ELSE /\ lastOp' = Throws("removeBookmark",
                                    [type |-> "ayat", identifier |-> identifier])
                /\ UNCHANGED bookmarks
        /\ UNCHANGED <<history, settings, theme, gatewayVars, authVars, clock, ticks,
                       ghostVars, appVars, opCount>>

ClearBookmarks ==
    /\ bookmarks' = DefaultBookmarks
    /\ addedSurat' = {}
    /\ lastOp' = [op |-> "clearBookmarks", arg |-> Null, res |-> TRUE]
    /\ UNCHANGED <<history, settings, theme, gatewayVars, authVars, clock, ticks,
                   visitLog, appVars, regLog, opCount>>

NextBookmarks ==
    \/ \E n \in ChapterIds : AddBookmarkSurat(Chapter(n))
    \/ \E id \in AyatIds : AddBookmarkAyat(AyatData(id[1], id[2]))
    \/ \E n \in ChapterIds : RemoveBookmarkSurat(n)
    \/ \E id \in AyatIds : RemoveBookmarkAyat(id[1], id[2])
    \/ ClearBookmarks
    \/ Tick(1)

SpecBookmarks == Init /\ [][NextBookmarks]_vars

OtherAyat(bm, s, a) == SelectSeq(bm.ayat, LAMBDA e : ~(e.suratId = s /\ e.nomorAyat = a))

\* C9: after addBookmark('ayat', {suratId: s, nomorAyat: a}) isBookmarked('ayat',
\* 's-a') is true, after removeBookmark('ayat', 's-a') it is false, and neither
\* call changes another verse bookmark or a chapter bookmark.
C9_AyatRoundTrip ==
    [][/\ (lastOp'.op = "addBookmark" /\ lastOp'.arg.type = "ayat")
            => LET d == lastOp'.arg.data
               IN  /\ isBookmarked(bookmarks', "ayat", BookmarkKey(d.suratId, d.nomorAyat))
                   /\ bookmarks'.surat = bookmarks.surat
                   /\ OtherAyat(bookmarks', d.suratId, d.nomorAyat)
                        = OtherAyat(bookmarks, d.suratId, d.nomorAyat)
       /\ (lastOp'.op = "removeBookmark" /\ lastOp'.arg.type = "ayat")
            => LET a == lastOp'.arg
               IN  /\ ~isBookmarked(bookmarks', "ayat", BookmarkKey(a.suratId, a.ayatNumber))
                   /\ bookmarks'.surat = bookmarks.surat
                   /\ OtherAyat(bookmarks', a.suratId, a.ayatNumber)
                        = OtherAyat(bookmarks, a.suratId, a.ayatNumber)]_vars

\* C9 happens: a bookmarked verse has just been removed while another verse
\* bookmark of the same chapter and a chapter bookmark are stored.
C9_Witness ==
    /\ lastOp.op = "removeBookmark"
    /\ lastOp.arg.type = "ayat"
    /\ lastOp.arg.was
    /\ \E i \in DOMAIN bookmarks.ayat : bookmarks.ayat[i].suratId = lastOp.arg.suratId
    /\ Len(bookmarks.surat) >= 1

(***************************************************************************)
(* History operations                                                      *)
(***************************************************************************)
AddHistory(c) ==
    /\ opCount < MaxOps
    /\ opCount' = opCount + 1
    /\ history' = addHistory(history, c, clock)
    /\ visitLog' = Append(visitLog, c.nomor)
    /\ lastOp' = [op |-> "addHistory", arg |-> c, res |-> TRUE]
    /\ UNCHANGED <<bookmarks, settings, theme, gatewayVars, authVars, clock, ticks,
                   addedSurat, regLog, appVars>>

\* chapters visited in the history runs: two below the cap, the cap and two beyond it
HistoryChapters == {1, 2, HistoryCap, HistoryCap + 1, HistoryCap + 2}

\* the history after addHistory of the chapters 1, 2, ..., k in this order
VisitedUpTo(k) ==
    [i \in 1..k |-> [nomor |-> k + 1 - i, nama |-> <<"nama", k + 1 - i>>,
                     namaLatin |-> <<"namaLatin", k + 1 - i>>, timestamp |-> 0]]

\* the store after 0, HistoryCap - 1 or HistoryCap first visits
InitHistory ==
    /\ bookmarks = DefaultBookmarks
    /\ settings = DefaultSettings
    /\ theme = "light"
    /\ InitGateway
    /\ InitAuth
    /\ InitRest
    /\ \E k \in {0, HistoryCap - 1, HistoryCap} :
          /\ history = VisitedUpTo(k)
          /\ visitLog = [i \in 1..k |-> i]

NextHistory ==
    \/ \E n \in HistoryChapters : AddHistory(Chapter(n))
    \/ Tick(1)

SpecHistory == InitHistory /\ [][NextHistory]_vars

\* the chapter ids of a history, head first
Nomors(h) == [i \in DOMAIN h |-> h[i].nomor]

\* C2: from an empty history addHistory(X), addHistory(Y), addHistory(X) with
\* X # Y gives exactly <<X, Y>>; every addHistory(c) puts c at the front,
\* leaves no other entry for c and keeps the other entries in their order.
C2_HistoryReinsert ==
    /\ [](\A x, y \in HistoryChapters :
            (x # y /\ visitLog = <<x, y, x>>) => Nomors(history) = <<x, y>>)
    /\ [][(lastOp'.op = "addHistory" /\ opCount' # opCount)
            => LET c == lastOp'.arg.nomor
                   others == SelectSeq(history, LAMBDA e : e.nomor # c)
               IN  /\ history'[1].nomor = c
                   /\ Len(history') = Min(Len(others) + 1, HistoryCap)
                   /\ \A i \in 2..Len(history') : history'[i] = others[i - 1]]_vars

\* C2 happens: X, Y, X were recorded on an empty history.
C2_Witness ==
    /\ visitLog = <<1, 2, 1>>
    /\ Len(history) = 2
    /\ lastOp.op = "addHistory"

\* the distinct chapters of a visit log, most recently visited first
RECURSIVE RecentDistinct(_)
RecentDistinct(log) ==
    IF log = <<>> THEN <<>>
    ELSE LET last == log[Len(log)]
         IN  <<last>> \o SelectSeq(RecentDistinct(SubSeq(log, 1, Len(log) - 1)),
                                   LAMBDA n : n # last)

Range(f) == {f[i] : i \in DOMAIN f}

\* C3: the history never has more than 50 entries, and once more than 50
\* distinct chapters were visited it holds exactly the 50 most recently
\* visited ones.
C3_HistoryCap ==
    /\ Len(history) <= HistoryCap
    /\ Cardinality(Range(visitLog)) > HistoryCap
         => /\ Len(history) = HistoryCap
            /\ Range(Nomors(history))
                 = Range(SubSeq(RecentDistinct(visitLog), 1, HistoryCap))

\* C3 happens: more than 50 distinct chapters were visited, one of them again
\* after it had been dropped.
C3_Witness ==
    /\ Cardinality(Range(visitLog)) > HistoryCap
    /\ Len(visitLog) > Cardinality(Range(visitLog))
    /\ Len(history) = HistoryCap
    /\ history[1].nomor = 1

(***************************************************************************)
(* StorageManager: theme, settings, export / import                        *)
(***************************************************************************)
\* JSON values of an import payload, tagged with their JavaScript type
Undefined == [t |-> "undefined"]
JNull     == [t |-> "null"]
JString(v) == [t |-> "string", v |-> v]
JObject(v) == [t |-> "object", v |-> v]
JArray(v)  == [t |-> "array", v |-> v]

\* data.k : undefined when the object has no such key
Field(data, k) == IF k \in DOMAIN data THEN data[k] ELSE Undefined

\* the truthiness test of `if (x)` and `!x`
Truthy(j) ==
    CASE j.t = "undefined" -> FALSE
      [] j.t = "null"      -> FALSE
      [] j.t = "string"    -> j.v # ""
      [] OTHER             -> TRUE

\* if (['light', 'dark'].includes(theme))
setThemeAccepts(t) == t \in {"light", "dark"}

\* settings[key] = value
updateSetting(st, key, value) ==
    [k \in DOMAIN st \cup {key} |-> IF k = key THEN value ELSE st[k]]

\* { ...currentSettings, ...newSettings }
updateSettings(st, newSettings) ==
    [k \in DOMAIN st \cup DOMAIN newSettings |->
        IF k \in DOMAIN newSettings THEN newSettings[k] ELSE st[k]]

\* !(!data.version || !data.bookmarks)
importAccepts_VersionOnly(data) == Truthy(Field(data, "version"))

importAccepts(data) == Truthy(Field(data, "version")) /\ Truthy(Field(data, "bookmarks"))

\* if (data.k) this.setItem(key, data.k)
importField(data, k, stored) == IF Truthy(Field(data, k)) THEN Field(data, k).v ELSE stored

SetTheme(t) ==
    /\ theme' = IF setThemeAccepts(t) THEN t ELSE theme
    /\ lastOp' = [op |-> "setTheme", arg |-> t, res |-> setThemeAccepts(t)]
    /\ UNCHANGED <<bookmarks, history, settings, gatewayVars, authVars, clock, ticks,
                   ghostVars, appVars, opCount>>

UpdateSetting(key, value) ==
    /\ settings' = updateSetting(settings, key, value)
    /\ lastOp' = [op |-> "updateSetting", arg |-> <<key, value>>, res |-> TRUE]
    /\ UNCHANGED <<bookmarks, history, theme, gatewayVars, authVars, clock, ticks,
                   ghostVars, appVars, opCount>>

UpdateSettings(newSettings) ==
    /\ settings' = updateSettings(settings, newSettings)
    /\ lastOp' = [op |-> "updateSettings", arg |-> newSettings, res |-> TRUE]
    /\ UNCHANGED <<bookmarks, history, theme, gatewayVars, authVars, clock, ticks,
                   ghostVars, appVars, opCount>>

ResetSettings ==
    /\ settings' = DefaultSettings
    /\ lastOp' = [op |-> "resetSettings", arg |-> Null, res |-> TRUE]
    /\ UNCHANGED <<bookmarks, history, theme, gatewayVars, authVars, clock, ticks,
                   ghostVars, appVars, opCount>>

\* every key is removed, then initializeStorage writes the defaults
ClearAllData ==
    /\ bookmarks' = DefaultBookmarks
    /\ history' = <<>>
    /\ settings' = DefaultSettings
    /\ theme' = "light"
    /\ addedSurat' = {}
    /\ lastOp' = [op |-> "clearAllData", arg |-> Null, res |-> TRUE]
    /\ UNCHANGED <<gatewayVars, authVars, clock, ticks, visitLog, appVars, regLog, opCount>>

\* importData(jsonData): p.json tells what JSON.parse makes of the text
\* ("invalid": it throws; "null"; "number"; "object" with the keys p.fields)
ImportData(p) ==
    /\ IF p.json \in {"invalid", "null"} \/ ~importAccepts(p.fields)
       THEN \* JSON.parse, the read of null.version or the format check throws
            /\ UNCHANGED storeVars
            /\ lastOp' = [op |-> "importData", arg |-> p, res |-> FALSE]
       ELSE /\ bookmarks' = importField(p.fields, "bookmarks", bookmarks)
            /\ history' = importField(p.fields, "history", history)
            /\ settings' = importField(p.fields, "settings", settings)
            /\ theme' = importField(p.fields, "theme", theme)
            /\ lastOp' = [op |-> "importData", arg |-> p, res |-> TRUE]
    /\ addedSurat' = {}
    /\ UNCHANGED <<gatewayVars, authVars, clock, ticks, visitLog, appVars, regLog, opCount>>

\* category values carried by the import payloads
PayloadBookmarks ==
    [surat |-> <<[nomor |-> 114, nama |-> <<"nama", 114>>, namaLatin |-> <<"namaLatin", 114>>,
                  jumlahAyat |-> 7, tempatTurun |-> "Mekah", timestamp |-> 0]>>,
     ayat |-> <<>>]

PayloadHistory ==
    <<[nomor |-> 114, nama |-> <<"nama", 114>>, namaLatin |-> <<"namaLatin", 114>>,
       timestamp |-> 0]>>

PayloadSettings == [DefaultSettings EXCEPT !.fontSize = "large"]

\* the payloads handed to importData: texts that do not parse or parse to a
\* non-object, objects without a version or without bookmarks, and objects
\* that pass the format check with all or some of the other categories
ImportPayloads ==
    {[json |-> "invalid", fields |-> <<>>],
     [json |-> "null", fields |-> <<>>],
     [json |-> "number", fields |-> <<>>],
     [json |-> "object",
      fields |-> [bookmarks |-> JObject(PayloadBookmarks), history |-> JArray(PayloadHistory),
                  settings |-> JObject(PayloadSettings), theme |-> JString("dark")]],
     [json |-> "object",
      fields |-> [version |-> JString("1.0"), history |-> JArray(PayloadHistory),
                  settings |-> JObject(PayloadSettings), theme |-> JString("dark")]],
     [json |-> "object",
      fields |-> [version |-> JString(""), bookmarks |-> JObject(PayloadBookmarks),
                  history |-> JArray(<<>>), theme |-> JString("light")]],
     [json |-> "object",
      fields |-> [version |-> JString("1.0"), bookmarks |-> JNull,
                  history |-> JArray(<<>>), theme |-> JString("light")]],
     [json |-> "object",
      fields |-> [version |-> JString("1.0"), bookmarks |-> JObject(PayloadBookmarks),
                  history |-> JArray(PayloadHistory), settings |-> JObject(PayloadSettings),
                  theme |-> JString("dark")]],
     [json |-> "object",
      fields |-> [version |-> JString("1.0"), bookmarks |-> JObject(DefaultBookmarks),
                  history |-> JArray(<<>>)]]}

NextStore ==
    \/ \E n \in ChapterIds : AddBookmarkSurat(Chapter(n))
    \/ \E n \in ChapterIds : AddHistory(Chapter(n))
    \/ \E t \in {"light", "dark", "sepia"} : SetTheme(t)
    \/ UpdateSetting("fontSize", "large")
    \/ UpdateSettings([autoPlayAudio |-> TRUE, fontSize |-> "small"])
    \/ ResetSettings
    \/ ClearAllData
    \/ \E p \in ImportPayloads : ImportData(p)

SpecStore == Init /\ [][NextStore]_vars

\* a payload that lacks a version tag or a bookmarks field, or is not a JSON object
Malformed(p) ==
    \/ p.json # "object"
    \/ ~Truthy(Field(p.fields, "version"))
    \/ ~Truthy(Field(p.fields, "bookmarks"))

\* C5: importData of a payload without a version tag or without a bookmarks
\* field, or of unparseable text, returns false and leaves bookmarks, history,
\* settings and theme as they were.
C5_ImportAllOrNothing ==
    [][(lastOp'.op = "importData" /\ Malformed(lastOp'.arg))
         => /\ lastOp'.res = FALSE
            /\ bookmarks' = bookmarks
            /\ history' = history
            /\ settings' = settings
            /\ theme' = theme]_vars

\* C5 happens: a payload with a version and other categories but no bookmarks
\* was rejected in a store whose four categories differ from the payload's.
C5_Witness ==
    /\ lastOp.op = "importData"
    /\ lastOp.arg.json = "object"
    /\ Truthy(Field(lastOp.arg.fields, "version"))
    /\ ~Truthy(Field(lastOp.arg.fields, "bookmarks"))
    /\ Truthy(Field(lastOp.arg.fields, "history"))
    /\ Field(lastOp.arg.fields, "history").v # history
    /\ Field(lastOp.arg.fields, "theme").v # theme
    /\ Len(bookmarks.surat) >= 1
    /\ settings # DefaultSettings

(***************************************************************************)
(* QuranAPI: getCachedData                                                 *)
(***************************************************************************)
CacheTTL == 3600000

\* Date.now() - cached.timestamp < 3600000
cacheFresh_Inclusive(now, timestamp) == now - timestamp <= CacheTTL

cacheFresh(now, timestamp) == now - timestamp < CacheTTL

\* values a producer resolves to
ProducerValues == {"v1", "v2"}

\* getCachedData(key, fetchFunction) up to its return or to `await fetchFunction()`:
\* a fresh entry is returned; otherwise a stale entry is deleted and the
\* producer is invoked, the call waiting for its result
GetCachedData(key) ==
    /\ opCount < MaxOps
    /\ opCount' = opCount + 1
    /\ IF cache[key] # Null /\ cacheFresh(clock, cache[key].timestamp)
       THEN /\ lastOp' = [op |-> "getCachedData", arg |-> key, res |-> Ok(cache[key].data)]
            /\ UNCHANGED <<cache, inflight, fetchCount>>
       ELSE /\ cache' = [cache EXCEPT ![key] = Null]
            /\ fetchCount' = [fetchCount EXCEPT ![key] = @ + 1]
            /\ inflight' = inflight \cup
                  {[id |-> opCount + 1, key |-> key, stale |-> cache[key] # Null]}
            /\ lastOp' = [op |-> "getCachedData", arg |-> key, res |-> Null]
    /\ UNCHANGED <<storeVars, authVars, clock, ticks, ghostVars, appVars>>

\* the producer of a waiting call resolves to data: the entry is stored with
\* the current time and data is returned
ProducerResolves(call, data) ==
    /\ call \in inflight
    /\ inflight' = inflight \ {call}
    /\ cache' = [cache EXCEPT ![call.key] = [data |-> data, timestamp |-> clock]]
    /\ lastOp' = [op |-> "getCachedData.return", arg |-> call, res |-> Ok(data)]
    /\ UNCHANGED <<fetchCount, storeVars, authVars, clock, ticks, ghostVars, appVars, opCount>>

\* the producer of a waiting call rejects: getCachedData rejects, nothing is stored
ProducerRejects(call) ==
    /\ call \in inflight
    /\ inflight' = inflight \ {call}
    /\ lastOp' = [op |-> "getCachedData.return", arg |-> call, res |-> Err("producer")]
    /\ UNCHANGED <<cache, fetchCount, storeVars, authVars, clock, ticks, ghostVars, appVars, opCount>>

ClearCache ==
    /\ cache' = [k \in CacheKeys |-> Null]
    /\ lastOp' = [op |-> "clearCache", arg |-> Null, res |-> Null]
    /\ UNCHANGED <<inflight, fetchCount, storeVars, authVars, clock, ticks, ghostVars, appVars, opCount>>

NextCache ==
    \/ \E k \in CacheKeys : GetCachedData(k)
    \/ \E call \in inflight : \E v \in ProducerValues : ProducerResolves(call, v)
    \/ \E call \in inflight : ProducerRejects(call)
    \/ ClearCache
    \/ \E d \in {CacheTTL - 1, 1} : Tick(d)

SpecCache == Init /\ [][NextCache]_vars

\* C4: a call that finds an entry stored less than 3,600,000 ms ago returns its
\* value without invoking the producer; a call that finds an older entry
\* discards it and invokes the producer once, and when the producer resolves
\* the result is stored with the current time and returned.
C4_CacheWindow ==
    [][/\ (lastOp'.op = "getCachedData" /\ opCount' # opCount /\ cache[lastOp'.arg] # Null)
            => LET k == lastOp'.arg
               IN  IF clock - cache[k].timestamp < 3600000
                   THEN /\ lastOp'.res = Ok(cache[k].data)
                        /\ fetchCount' = fetchCount
                        /\ inflight' = inflight
                        /\ cache' = cache
                   ELSE /\ lastOp'.res = Null
                        /\ cache'[k] = Null
                        /\ fetchCount' = [fetchCount EXCEPT ![k] = @ + 1]
                        /\ \E call \in inflight' :
                              /\ call.key = k
                              /\ call \notin inflight
                              /\ inflight' = inflight \cup {call}
       /\ (lastOp'.op = "getCachedData.return" /\ lastOp'.res.ok /\ inflight' # inflight)
            => /\ cache'[lastOp'.arg.key] = [data |-> lastOp'.res.val, timestamp |-> clock']
               /\ fetchCount' = fetchCount]_vars

\* C4 happens: an entry stored at time 0 was found exactly 3,600,000 ms later,
\* discarded, and the producer's new result has just been stored.
C4_Witness ==
    /\ lastOp.op = "getCachedData.return"
    /\ lastOp.res.ok
    /\ lastOp.arg.stale
    /\ clock = 3600000
    /\ cache[lastOp.arg.key] = [data |-> lastOp.res.val, timestamp |-> 3600000]
    /\ fetchCount[lastOp.arg.key] = 2

(***************************************************************************)
(* AuthManager: strings and the password checksum                          *)
(***************************************************************************)
LowerChars == <<"a", "b", "c", "d", "e", "f", "g", "h", "i", "j", "k", "l", "m">> \o
              <<"n", "o", "p", "q", "r", "s", "t", "u", "v", "w", "x", "y", "z">>

UpperChars == <<"A", "B", "C", "D", "E", "F", "G", "H", "I", "J", "K", "L", "M">> \o
              <<"N", "O", "P", "Q", "R", "S", "T", "U", "V", "W", "X", "Y", "Z">>

IndexIn(chars, ch) == CHOOSE k \in DOMAIN chars : chars[k] = ch

IsIn(chars, ch) == \E k \in DOMAIN chars : chars[k] = ch

\* String.prototype.charCodeAt for letters, digits, '_' and ' '
charCodeAt(ch) ==
    IF IsIn(LowerChars, ch) THEN 96 + IndexIn(LowerChars, ch)
    ELSE IF IsIn(UpperChars, ch) THEN 64 + IndexIn(UpperChars, ch)
    ELSE IF IsIn(DigitChars, ch) THEN 47 + IndexIn(DigitChars, ch)
    ELSE IF ch = "_" THEN 95
    ELSE 32

\* the lower-case letter of each upper-case letter
LowerOf ==
    [ch \in {UpperChars[k] : k \in DOMAIN UpperChars} |-> LowerChars[IndexIn(UpperChars, ch)]]

\* String.prototype.toLowerCase
toLowerCase(str) ==
    [i \in DOMAIN str |-> IF str[i] \in DOMAIN LowerOf THEN LowerOf[str[i]] ELSE str[i]]

\* String.prototype.trim
RECURSIVE trim(_)
trim(str) ==
    IF str = <<>> THEN str
    ELSE IF str[1] = " " THEN trim(Tail(str))
    ELSE IF str[Len(str)] = " " THEN trim(SubSeq(str, 1, Len(str) - 1))
    ELSE str

\* const salt = 'quran_app_salt_2024'
Salt == <<"q", "u", "r", "a", "n", "_", "a", "p", "p", "_", "s", "a", "l", "t", "_", "2", "0", "2", "4">>

\* hash = ((hash << 5) - hash) + char; hash = hash & hash
\* i.e. 31 * hash + char reduced to a signed 32-bit integer, computed on the
\* two 16-bit halves of hash
hashStep(hash, char) ==
    LET lo    == hash % 65536
        hi    == ((hash - lo) \div 65536) % 65536
        sumLo == 31 * lo + char
        newLo == sumLo % 65536
        newHi == (31 * hi + (sumLo \div 65536)) % 65536
    IN  IF newHi >= 32768 THEN (newHi - 65536) * 65536 + newLo
        ELSE newHi * 65536 + newLo

\* for (let i = 0; i < combined.length; i++): the steps for the characters
\* a..b of combined, in this order, applied to hash (the range is halved, the
\* first half evaluated before the second, so that the evaluation stays shallow)
RECURSIVE hashRange(_, _, _, _)
hashRange(hash, combined, a, b) ==
    IF a > b THEN hash
    ELSE IF a = b THEN hashStep(hash, charCodeAt(combined[a]))
    ELSE CHOOSE result \in
            {hashRange(left, combined, ((a + b) \div 2) + 1, b) :
                left \in {hashRange(hash, combined, a, (a + b) \div 2)}} : TRUE

\* hashPassword(password): the checksum whose decimal string is stored
hashPassword(password) ==
    LET combined == password \o Salt
    IN  hashRange(0, combined, 1, Len(combined))


(***************************************************************************)
(* AuthManager: accounts and session                                       *)
(***************************************************************************)
\* 24 * 60 * 60 * 1000
SessionMs == 86400000

\* user names and passwords typed into the forms
Usernames ==
    {<<>>, <<"a", "b">>, <<"a", "m", "y">>, <<"b", "o", "b">>, <<"B", "o", "b">>, <<"b", "o", "b", " ">>}

Passwords == {<<>>, <<"a", "b", "c">>, <<"s", "e", "c", "r", "e", "t">>, <<"q", "w", "e", "r", "t", "y">>}

\* a result of generateTempPassword: 8 characters drawn with Math.random
TempPasswords == {<<"A", "b", "3", "d", "E", "f", "9", "h">>}

\* hashPassword tabulated for the passwords of the model
HashTable == [p \in Passwords \cup TempPasswords |-> hashPassword(p)]

\* hash === hashedPassword
verifyPassword(password, hashedPassword) == HashTable[password] = hashedPassword

\* partial profiles passed to updateProfile
ProfileUpdates == {[displayName |-> <<"B", "o", "b", "b", "y">>], [theme |-> "dark"]}

\* users.find / findIndex by user name, compared in lower case: the index of
\* the first match, 0 when there is none
findByName(us, username) ==
    IF \E i \in DOMAIN us : toLowerCase(us[i].username) = toLowerCase(username)
    THEN CHOOSE i \in DOMAIN us :
            /\ toLowerCase(us[i].username) = toLowerCase(username)
            /\ \A j \in 1..(i - 1) : toLowerCase(us[j].username) # toLowerCase(username)
    ELSE 0

\* users.find / findIndex by id
findById(us, id) ==
    IF \E i \in DOMAIN us : us[i].id = id
    THEN CHOOSE i \in DOMAIN us : us[i].id = id /\ \A j \in 1..(i - 1) : us[j].id # id
    ELSE 0

\* isSessionValid(session)
isSessionValid_NoExpiry(s, now) == s # Null /\ s.isValid

isSessionValid_Inclusive(s, now) == s # Null /\ s.isValid /\ ~(now >= s.expiresAt)

isSessionValid(s, now) == s # Null /\ s.isValid /\ ~(now > s.expiresAt)

\* the two records written by createUserSession
sessionUserOf(user, now) ==
    [id |-> user.id, username |-> user.username,
     displayName |-> IF user.profile.displayName # <<>> THEN user.profile.displayName
                     ELSE user.username,
     profile |-> user.profile, loginTime |-> now]

sessionOf(user, now) ==
    [userId |-> user.id, createdAt |-> now, expiresAt |-> now + SessionMs, isValid |-> TRUE]

\* the account record built by register; lastLogin is Null or <<time>>
newUserOf(id, username, password, now) ==
    [id |-> id, username |-> trim(username), password |-> HashTable[password],
     createdAt |-> now, lastLogin |-> Null, isActive |-> TRUE,
     profile |-> [displayName |-> trim(username), preferredQari |-> "",
                  fontSize |-> "medium", theme |-> "light"]]

\* the error register throws, "" when it accepts
registerError_NoLength(us, username, password) ==
    IF username = <<>> \/ password = <<>> THEN "Username dan password harus diisi"
    ELSE IF findByName(us, username) # 0 THEN "Username sudah digunakan"
    ELSE ""

registerError(us, username, password) ==
    IF username = <<>> \/ password = <<>> THEN "Username dan password harus diisi"
    ELSE IF Len(username) < 3 THEN "Username minimal 3 karakter"
    ELSE IF Len(password) < 6 THEN "Password minimal 6 karakter"
    ELSE IF findByName(us, username) # 0 THEN "Username sudah digunakan"
    ELSE ""

\* the error login throws, "" when it accepts
loginError_PasswordFirst(us, username, password) ==
    IF username = <<>> \/ password = <<>> THEN "Username dan password harus diisi"
    ELSE IF findByName(us, username) = 0 THEN "Username tidak ditemukan"
    ELSE IF ~verifyPassword(password, us[findByName(us, username)].password)
         THEN "Password salah"
    ELSE IF ~us[findByName(us, username)].isActive THEN "Akun tidak aktif"
    ELSE ""

loginError(us, username, password) ==
    IF username = <<>> \/ password = <<>> THEN "Username dan password harus diisi"
    ELSE IF findByName(us, username) = 0 THEN "Username tidak ditemukan"
    ELSE IF ~us[findByName(us, username)].isActive THEN "Akun tidak aktif"
    ELSE IF ~verifyPassword(password, us[findByName(us, username)].password)
         THEN "Password salah"
    ELSE ""

\* getCurrentUser(): an absent, invalid or expired session logs out and gives null
getCurrentUser(s, cu, now) == IF isSessionValid(s, now) THEN cu ELSE Null

\* the session and current-user records after a getCurrentUser() call
AfterRead ==
    IF isSessionValid(session, clock)
    THEN UNCHANGED <<session, currentUser>>
    ELSE session' = Null /\ currentUser' = Null

\* registrations that still describe their account after a change of account id
Forget(id) == {r \in regLog : r.id # id}

Register(username, password) ==
    LET error == registerError(users, username, password)
        arg   == [username |-> username, password |-> password]
    IN  IF error # ""
        THEN /\ lastOp' = [op |-> "register", arg |-> arg, res |-> Err(error)]
             /\ UNCHANGED <<authVars, regLog>>
        ELSE /\ idCounter < MaxUsers
             /\ LET newUser == newUserOf(idCounter + 1, username, password, clock)
                IN  /\ idCounter' = idCounter + 1
                    /\ users' = Append(users, newUser)
                    /\ currentUser' = sessionUserOf(newUser, clock)
                    /\ session' = sessionOf(newUser, clock)
                    /\ regLog' = regLog \cup {[username |-> username, password |-> password,
                                               id |-> newUser.id]}
                    /\ lastOp' = [op |-> "register", arg |-> arg,
                                  res |-> Ok(sessionUserOf(newUser, clock))]

Login(username, password) ==
    LET error == loginError(users, username, password)
        arg   == [username |-> username, password |-> password]
    IN  IF error # ""
        THEN /\ lastOp' = [op |-> "login", arg |-> arg, res |-> Err(error)]
             /\ UNCHANGED <<authVars, regLog>>
        ELSE LET i    == findByName(users, username)
                 user == [users[i] EXCEPT !.lastLogin = <<clock>>]
             IN  /\ users' = [users EXCEPT ![findById(users, user.id)] = user]
                 /\ currentUser' = sessionUserOf(user, clock)
                 /\ session' = sessionOf(user, clock)
                 /\ lastOp' = [op |-> "login", arg |-> arg,
                               res |-> Ok(sessionUserOf(user, clock))]
                 /\ UNCHANGED <<idCounter, regLog>>

Logout ==
    /\ session' = Null
    /\ currentUser' = Null
    /\ lastOp' = [op |-> "logout", arg |-> Null, res |-> Ok(TRUE)]
    /\ UNCHANGED <<users, idCounter, regLog>>

\* arg records what the call found: a stored session, and whether its expiry had passed
Found == [session |-> session # Null,
          expired |-> session # Null /\ clock > session.expiresAt]

GetCurrentUser ==
    /\ AfterRead
    /\ lastOp' = [op |-> "getCurrentUser", arg |-> Found,
                  res |-> getCurrentUser(session, currentUser, clock)]
    /\ UNCHANGED <<users, idCounter, regLog>>

IsLoggedIn ==
    /\ AfterRead
    /\ lastOp' = [op |-> "isLoggedIn", arg |-> Found,
                  res |-> Ok(getCurrentUser(session, currentUser, clock) # Null)]
    /\ UNCHANGED <<users, idCounter, regLog>>

ValidateSession ==
    /\ AfterRead
    /\ lastOp' = [op |-> "validateSession", arg |-> Found,
                  res |-> Ok(isSessionValid(session, clock))]
    /\ UNCHANGED <<users, idCounter, regLog>>

\* getUserStats(): null without a logged-in user or without its account
GetUserStats ==
    LET cu == getCurrentUser(session, currentUser, clock)
    IN  /\ AfterRead
        /\ lastOp' = [op |-> "getUserStats", arg |-> Found,
                      res |-> IF cu = Null \/ findById(users, cu.id) = 0 THEN Null
                              ELSE [username |-> users[findById(users, cu.id)].username,
                                    isActive |-> users[findById(users, cu.id)].isActive]]
        /\ UNCHANGED <<users, idCounter, regLog>>

GetUserPreferences ==
    LET cu == getCurrentUser(session, currentUser, clock)
    IN  /\ AfterRead
        /\ lastOp' = [op |-> "getUserPreferences", arg |-> Found,
                      res |-> IF cu = Null THEN Null
                              ELSE [theme |-> cu.profile.theme, fontSize |-> cu.profile.fontSize,
                                    preferredQari |-> cu.profile.preferredQari,
                                    displayName |-> cu.profile.displayName]]
        /\ UNCHANGED <<users, idCounter, regLog>>

ExtendSession_Stored ==
    /\ IF session # Null /\ session.isValid
       THEN /\ session' = [session EXCEPT !.expiresAt = clock + SessionMs]
            /\ lastOp' = [op |-> "extendSession", arg |-> Found, res |-> Ok(TRUE)]
       ELSE /\ session' = session
            /\ lastOp' = [op |-> "extendSession", arg |-> Found, res |-> Ok(FALSE)]
    /\ UNCHANGED <<users, currentUser, idCounter, regLog>>

ExtendSession ==
    /\ IF isSessionValid(session, clock)
       THEN /\ session' = [session EXCEPT !.expiresAt = clock + SessionMs]
            /\ lastOp' = [op |-> "extendSession", arg |-> Found, res |-> Ok(TRUE)]
       ELSE /\ session' = session
            /\ lastOp' = [op |-> "extendSession", arg |-> Found, res |-> Ok(FALSE)]
    /\ UNCHANGED <<users, currentUser, idCounter, regLog>>

\* { ...profile, ...profileData }
mergeProfile(profile, profileData) ==
    [k \in DOMAIN profile \cup DOMAIN profileData |->
        IF k \in DOMAIN profileData THEN profileData[k] ELSE profile[k]]

\* updateProfile(profileData), called directly (opName "updateProfile") or
\* through updateUserPreferences, which turns a thrown error into false
UpdateProfileAs(opName, profileData) ==
    LET cu     == getCurrentUser(session, currentUser, clock)
        i      == IF cu = Null THEN 0 ELSE findById(users, cu.id)
        failed(e) == IF opName = "updateProfile" THEN Err(e) ELSE Ok(FALSE)
    IN  IF cu = Null
        THEN /\ AfterRead
             /\ lastOp' = [op |-> opName, arg |-> profileData, res |-> failed("User tidak login")]
             /\ UNCHANGED <<users, idCounter, regLog>>
        ELSE IF i = 0
        THEN /\ lastOp' = [op |-> opName, arg |-> profileData,
                           res |-> failed("User tidak ditemukan")]
             /\ UNCHANGED <<authVars, regLog>>
        ELSE LET profile == mergeProfile(users[i].profile, profileData)
             IN  /\ users' = [users EXCEPT ![i].profile = profile]
                 /\ currentUser' =
                      [cu EXCEPT !.profile = profile,
                                 !.displayName = IF "displayName" \in DOMAIN profileData
                                                    /\ profileData.displayName # <<>>
                                                 THEN profileData.displayName ELSE @]
                 /\ regLog' = Forget(cu.id)
                 /\ lastOp' = [op |-> opName, arg |-> profileData, res |-> Ok(TRUE)]
                 /\ UNCHANGED <<session, idCounter>>

UpdateProfile(profileData) == UpdateProfileAs("updateProfile", profileData)

UpdateUserPreferences(preferences) == UpdateProfileAs("updateUserPreferences", preferences)

\* the error changePassword throws for a logged-in user cu, "" when it accepts
changePasswordError(us, cu, currentPassword, newPassword) ==
    IF currentPassword = <<>> \/ newPassword = <<>> THEN "Password lama dan baru harus diisi"
    ELSE IF Len(newPassword) < 6 THEN "Password baru minimal 6 karakter"
    ELSE IF findById(us, cu.id) = 0 THEN "User tidak ditemukan"
    ELSE IF ~verifyPassword(currentPassword, us[findById(us, cu.id)].password)
         THEN "Password lama salah"
    ELSE ""

ChangePassword(currentPassword, newPassword) ==
    LET cu  == getCurrentUser(session, currentUser, clock)
        arg == [currentPassword |-> currentPassword, newPassword |-> newPassword]
    IN  IF cu = Null
        THEN /\ AfterRead
             /\ lastOp' = [op |-> "changePassword", arg |-> arg, res |-> Err("User tidak login")]
             /\ UNCHANGED <<users, idCounter, regLog>>
        ELSE IF changePasswordError(users, cu, currentPassword, newPassword) # ""
        THEN /\ lastOp' = [op |-> "changePassword", arg |-> arg,
                           res |-> Err(changePasswordError(users, cu, currentPassword,
                                                           newPassword))]
             /\ UNCHANGED <<authVars, regLog>>
        ELSE /\ users' = [users EXCEPT ![findById(users, cu.id)].password =
                                          HashTable[newPassword]]
             /\ regLog' = Forget(cu.id)
             /\ lastOp' = [op |-> "changePassword", arg |-> arg, res |-> Ok(TRUE)]
             /\ UNCHANGED <<session, currentUser, idCounter>>

\* the error deleteAccount throws for a logged-in user cu, "" when it accepts
deleteAccountError(us, cu, password) ==
    IF password = <<>> THEN "Password harus diisi untuk konfirmasi"
    ELSE IF findById(us, cu.id) = 0 THEN "User tidak ditemukan"
    ELSE IF ~verifyPassword(password, us[findById(us, cu.id)].password) THEN "Password salah"
    ELSE ""

DeleteAccount_StaysLoggedIn(password) ==
    LET cu == getCurrentUser(session, currentUser, clock)
    IN  IF cu = Null
        THEN /\ AfterRead
             /\ lastOp' = [op |-> "deleteAccount", arg |-> password,
                           res |-> Err("User tidak login")]
             /\ UNCHANGED <<users, idCounter, regLog>>
        ELSE IF deleteAccountError(users, cu, password) # ""
        THEN /\ lastOp' = [op |-> "deleteAccount", arg |-> password,
                           res |-> Err(deleteAccountError(users, cu, password))]
             /\ UNCHANGED <<authVars, regLog>>
        ELSE /\ users' = SelectSeq(users, LAMBDA u : u.id # cu.id)
             /\ regLog' = Forget(cu.id)
             /\ lastOp' = [op |-> "deleteAccount", arg |-> password, res |-> Ok(TRUE)]
             /\ UNCHANGED <<session, currentUser, idCounter>>

DeleteAccount(password) ==
    LET cu == getCurrentUser(session, currentUser, clock)
    IN  IF cu = Null
        THEN /\ AfterRead
             /\ lastOp' = [op |-> "deleteAccount", arg |-> password,
                           res |-> Err("User tidak login")]
             /\ UNCHANGED <<users, idCounter, regLog>>
        ELSE IF deleteAccountError(users, cu, password) # ""
        THEN /\ lastOp' = [op |-> "deleteAccount", arg |-> password,
                           res |-> Err(deleteAccountError(users, cu, password))]
             /\ UNCHANGED <<authVars, regLog>>
        ELSE /\ users' = SelectSeq(users, LAMBDA u : u.id # cu.id)
             /\ session' = Null
             /\ currentUser' = Null
             /\ regLog' = Forget(cu.id)
             /\ lastOp' = [op |-> "deleteAccount", arg |-> password, res |-> Ok(TRUE)]
             /\ UNCHANGED idCounter

\* resetPassword(username) with tempPassword the result of generateTempPassword
ResetPassword_KeepsChecksum(username, tempPassword) ==
    LET i == findByName(users, username)
    IN  IF i = 0
        THEN /\ lastOp' = [op |-> "resetPassword", arg |-> username,
                           res |-> Err("Username tidak ditemukan")]
             /\ UNCHANGED <<authVars, regLog>>
        ELSE /\ users' = [users EXCEPT ![i] =
                            [k \in DOMAIN users[i] \cup {"mustChangePassword"} |->
                                IF k = "mustChangePassword" THEN TRUE ELSE users[i][k]]]
             /\ regLog' = Forget(users[i].id)
             /\ lastOp' = [op |-> "resetPassword", arg |-> username, res |-> Ok(tempPassword)]
             /\ UNCHANGED <<session, currentUser, idCounter>>

ResetPassword(username, tempPassword) ==
    LET i == findByName(users, username)
    IN  IF i = 0
        THEN /\ lastOp' = [op |-> "resetPassword", arg |-> username,
                           res |-> Err("Username tidak ditemukan")]
             /\ UNCHANGED <<authVars, regLog>>
        ELSE /\ users' = [users EXCEPT ![i] =
                            [k \in DOMAIN users[i] \cup {"mustChangePassword"} |->
                                IF k = "password" THEN HashTable[tempPassword]
                                ELSE IF k = "mustChangePassword" THEN TRUE
                                ELSE users[i][k]]]
             /\ regLog' = Forget(users[i].id)
             /\ lastOp' = [op |-> "resetPassword", arg |-> username, res |-> Ok(tempPassword)]
             /\ UNCHANGED <<session, currentUser, idCounter>>

IsUsernameAvailable(username) ==
    /\ lastOp' = [op |-> "isUsernameAvailable", arg |-> username,
                  res |-> Ok(findByName(users, username) = 0)]
    /\ UNCHANGED <<authVars, regLog>>

\* the three keys are removed, then initializeAuth stores an empty accounts list
ClearAllAuthData ==
    /\ users' = <<>>
    /\ session' = Null
    /\ currentUser' = Null
    /\ regLog' = {}
    /\ lastOp' = [op |-> "clearAllAuthData", arg |-> Null, res |-> Null]
    /\ UNCHANGED idCounter

\* one call of an AuthManager method by the page; time does not pass during it
AuthCall ==
    /\ opCount < MaxAuthOps
    /\ opCount' = opCount + 1
    /\ UNCHANGED <<storeVars, gatewayVars, clock, ticks, addedSurat, visitLog, appVars>>

NextAuth ==
    \/ \E u \in Usernames, p \in Passwords : AuthCall /\ Register(u, p)
    \/ \E u \in Usernames, p \in Passwords : AuthCall /\ Login(u, p)
    \/ AuthCall /\ Logout
    \/ AuthCall /\ GetCurrentUser
    \/ AuthCall /\ IsLoggedIn
    \/ AuthCall /\ ValidateSession
    \/ AuthCall /\ GetUserStats
    \/ AuthCall /\ GetUserPreferences
    \/ AuthCall /\ ExtendSession
    \/ \E pd \in ProfileUpdates : AuthCall /\ UpdateProfile(pd)
    \/ \E pd \in ProfileUpdates : AuthCall /\ UpdateUserPreferences(pd)
    \/ \E p, q \in Passwords : AuthCall /\ ChangePassword(p, q)
    \/ \E p \in Passwords : AuthCall /\ DeleteAccount(p)
    \/ \E u \in Usernames, t \in TempPasswords : AuthCall /\ ResetPassword(u, t)
    \/ \E u \in Usernames : AuthCall /\ IsUsernameAvailable(u)
    \/ AuthCall /\ ClearAllAuthData
    \/ Tick(SessionMs)

SpecAuth == Init /\ [][NextAuth]_vars

\* C6: getCurrentUser called after the session's expiresAt has passed returns
\* null and removes the session and the current-user record; with no session
\* stored getCurrentUser and isLoggedIn report no user, and only a successful
\* login or register stores a session again.
C6_ExpiredSessionCleared ==
    [][/\ (lastOp'.op = "getCurrentUser" /\ opCount' # opCount
             /\ session # Null /\ clock > session.expiresAt)
            => (lastOp'.res = Null /\ session' = Null /\ currentUser' = Null)
       /\ (lastOp'.op = "getCurrentUser" /\ opCount' # opCount /\ session = Null)
            => (lastOp'.res = Null /\ session' = Null)
       /\ (lastOp'.op = "isLoggedIn" /\ opCount' # opCount /\ session = Null)
            => (lastOp'.res = Ok(FALSE) /\ session' = Null)
       /\ (session = Null /\ session' # Null)
            => (lastOp'.op \in {"login", "register"} /\ lastOp'.res.ok)]_vars

\* C6 happens: getCurrentUser found a session whose expiresAt had passed.
C6_Witness ==
    /\ lastOp.op = "getCurrentUser"
    /\ lastOp.arg.expired
    /\ lastOp.res = Null
    /\ session = Null
    /\ currentUser = Null
    /\ Len(users) >= 1

\* C7: a login with the user name and password of an accepted register, the
\* account not changed in between, succeeds with the id register returned.
C7_RegisterThenLogin ==
    [][(lastOp'.op = "login" /\ opCount' # opCount)
         => \A r \in regLog :
               (r.username = lastOp'.arg.username /\ r.password = lastOp'.arg.password)
                  => (lastOp'.res.ok /\ lastOp'.res.val.id = r.id)]_vars

\* C8: no two stored accounts have user names that are equal ignoring case.
C8_UniqueUsernames ==
    \A i, j \in DOMAIN users :
        i # j => toLowerCase(users[i].username) # toLowerCase(users[j].username)

\* operations that read the session through getCurrentUser or validateSession
SessionReads ==
    {"getCurrentUser", "isLoggedIn", "validateSession", "getUserStats", "getUserPreferences",
     "updateProfile", "updateUserPreferences", "changePassword", "deleteAccount"}

\* one step of the session state machine, clearing being the operations that
\* end a session unconditionally: a session appears only by a successful login
\* or register; it disappears only by a clearing operation, a successful
\* deleteAccount or a read that finds its expiry passed; a successful
\* changePassword leaves it stored and valid
SessionStep(clearing) ==
    /\ (session = Null /\ session' # Null)
         => (lastOp'.op \in {"login", "register"} /\ lastOp'.res.ok)
    /\ (session # Null /\ session' = Null)
         => \/ lastOp'.op \in clearing
            \/ lastOp'.op = "deleteAccount" /\ lastOp'.res.ok
            \/ lastOp'.op \in SessionReads /\ clock > session.expiresAt
    /\ (lastOp'.op = "changePassword" /\ opCount' # opCount /\ lastOp'.res.ok)
         => /\ session # Null
            /\ session' = session
            /\ session'.isValid
            /\ clock' <= session'.expiresAt

C11_SessionValidity ==
    [][/\ (lastOp'.op = "validateSession" /\ opCount' # opCount /\ session # Null)
            => lastOp'.res = Ok(session.isValid /\ clock < session.expiresAt)
       /\ (lastOp'.op \in {"login", "register"} /\ opCount' # opCount /\ lastOp'.res.ok)
            => (session'.createdAt = clock /\ session'.expiresAt = clock + SessionMs)
       /\ (lastOp'.op = "extendSession" /\ opCount' # opCount /\ lastOp'.res = Ok(TRUE))
            => session'.expiresAt = clock + SessionMs
       /\ (session # Null /\ session' # Null
             /\ ~(lastOp'.op \in {"login", "register"} /\ lastOp'.res.ok)
             /\ ~(lastOp'.op = "extendSession" /\ lastOp'.res = Ok(TRUE)))
            => session'.expiresAt = session.expiresAt]_vars

\* the messages of register's validation errors
RegisterValidationErrors ==
    {"Username dan password harus diisi", "Username minimal 3 karakter",
     "Password minimal 6 karakter"}

\* C12: register throws a validation error when the user name or the password
\* is empty, the user name has fewer than 3 characters or the password fewer
\* than 6; a rejected register, validation or conflict, leaves the accounts
\* list, the session and the current-user record as they were.
C12_RegisterRejects ==
    [][(lastOp'.op = "register" /\ opCount' # opCount)
         => /\ (\/ lastOp'.arg.username = <<>>
                \/ lastOp'.arg.password = <<>>
                \/ Len(lastOp'.arg.username) < 3
                \/ Len(lastOp'.arg.password) < 6)
                 => (~lastOp'.res.ok /\ lastOp'.res.err \in RegisterValidationErrors)
            /\ ~lastOp'.res.ok
                 => (users' = users /\ session' = session /\ currentUser' = currentUser)]_vars

\* C12 happens: with a user logged in, a register with a short password or a
\* taken user name was rejected and the session of the logged-in user is kept.
C12_Witness ==
    /\ lastOp.op = "register"
    /\ ~lastOp.res.ok
    /\ lastOp.res.err \in {"Password minimal 6 karakter", "Username sudah digunakan"}
    /\ Len(users) = 1
    /\ session # Null
    /\ currentUser # Null

(***************************************************************************)
(* AuthManager: login against an accounts list found in localStorage       *)
(***************************************************************************)
\* an account as register stores it, and the same account deactivated
StoredAccount(id, username, active) ==
    [newUserOf(id, username, <<"s", "e", "c", "r", "e", "t">>, 0) EXCEPT !.isActive = active]

\* accounts lists found under quran_app_users when the page loads
StoredAccountLists ==
    {<<>>,
     <<StoredAccount(1, <<"a", "m", "y">>, TRUE)>>,
     <<StoredAccount(1, <<"b", "o", "b">>, FALSE)>>,
     <<StoredAccount(1, <<"b", "o", "b">>, FALSE), StoredAccount(2, <<"a", "m", "y">>, TRUE)>>}

\* initializeAuth keeps an accounts list that is already stored
InitLogin ==
    /\ InitStore
    /\ InitGateway
    /\ InitRest
    /\ visitLog = <<>>
    /\ users \in StoredAccountLists
    /\ session = Null
    /\ currentUser = Null
    /\ idCounter = Len(users)

NextLogin ==
    \/ \E u \in Usernames, p \in Passwords : AuthCall /\ Login(u, p)
    \/ AuthCall /\ Logout
    \/ Tick(SessionMs)

SpecLogin == InitLogin /\ [][NextLogin]_vars

\* the accounts whose user name equals username ignoring case
NameMatches(us, username) ==
    {i \in DOMAIN us : toLowerCase(us[i].username) = toLowerCase(username)}

\* the first of a non-empty set of indices
First(indices) == CHOOSE i \in indices : \A j \in indices : i <= j

\* C13: login fails with the validation error on an empty user name or
\* password; otherwise with not-found when no account matches ignoring case;
\* otherwise with forbidden when the account is inactive; otherwise with the
\* bad-credentials error when the checksum differs. A failed login leaves the
\* accounts list, the session and the current-user record unchanged.
C13_LoginFailures ==
    [][(lastOp'.op = "login" /\ opCount' # opCount)
         => LET u == lastOp'.arg.username
                p == lastOp'.arg.password
                m == NameMatches(users, u)
            IN  /\ IF u = <<>> \/ p = <<>>
                   THEN lastOp'.res = Err("Username dan password harus diisi")
                   ELSE IF m = {}
                   THEN lastOp'.res = Err("Username tidak ditemukan")
                   ELSE IF ~users[First(m)].isActive
                   THEN lastOp'.res = Err("Akun tidak aktif")
                   ELSE IF users[First(m)].password # hashPassword(p)
                   THEN lastOp'.res = Err("Password salah")
                   ELSE lastOp'.res.ok
                /\ ~lastOp'.res.ok
                     => /\ users' = users
                        /\ session' = session
                        /\ currentUser' = currentUser
                        /\ clock' = clock]_vars

\* C13 happens: with a valid session stored, a login to an inactive account
\* with a wrong password was refused as forbidden, and the session is kept.
C13_Witness ==
    /\ lastOp.op = "login"
    /\ lastOp.res = Err("Akun tidak aktif")
    /\ lastOp.arg.password = <<"q", "w", "e", "r", "t", "y">>
    /\ session # Null
    /\ session.isValid
    /\ clock <= session.expiresAt
    /\ currentUser # Null

\* there is no valid session: none is stored, or its flag is off, or the
\* current time is not before its expiresAt
NoValidSession == session = Null \/ ~session.isValid \/ ~(clock < session.expiresAt)

\* the stored checksum of the logged-in account differs from that of password
PasswordMismatch(password) ==
    \E i \in DOMAIN users :
        users[i].id = session.userId /\ users[i].password # hashPassword(password)

\* C14: updateProfile, changePassword and deleteAccount fail with 'User tidak
\* login' whenever there is no valid session, and then change no account;
\* changePassword and deleteAccount fail, changing neither the accounts list
\* nor the session, when the current password given does not match the stored
\* checksum of the logged-in account.
C14_RequiresSession ==
    [][/\ (lastOp'.op \in {"updateProfile", "changePassword", "deleteAccount"}
             /\ opCount' # opCount /\ NoValidSession)
            => (lastOp'.res = Err("User tidak login") /\ users' = users)
       /\ (lastOp'.op = "changePassword" /\ opCount' # opCount /\ ~NoValidSession
             /\ PasswordMismatch(lastOp'.arg.currentPassword))
            => (~lastOp'.res.ok /\ users' = users /\ session' = session)
       /\ (lastOp'.op = "deleteAccount" /\ opCount' # opCount /\ ~NoValidSession
             /\ PasswordMismatch(lastOp'.arg))
            => (~lastOp'.res.ok /\ users' = users /\ session' = session)]_vars

(***************************************************************************)
(* QuranAPI: getAyatAudioUrl                                               *)
(***************************************************************************)
\* this.qariMapping
qariMapping ==
    [abdullah_al_juhany |-> "01", abdul_muhsin_al_qasim |-> "02",
     abdurrahman_as_sudais |-> "03", ibrahim_al_dossari |-> "04",
     misyari_rasyid_al_afasy |-> "05"]

\* reciter keys passed by callers: the five of qariMapping and two others
QariKeys == DOMAIN qariMapping \cup {"unknown_qari", ""}

\* the audio URL the server lists for a verse and a reciter id
AudioUrl(surat, ayat, qariId) == JString(<<"audio-partial", qariId, surat, ayat>>)

\* verses as the server returns them: with all five reciters, with one
\* reciter only, and without an audio mapping
VerseFull(surat, n) ==
    [nomorAyat |-> n,
     audio |-> JObject([id \in {"01", "02", "03", "04", "05"} |-> AudioUrl(surat, n, id)])]

VerseOneReciter(surat, n) ==
    [nomorAyat |-> n, audio |-> JObject([id \in {"05"} |-> AudioUrl(surat, n, id)])]

VerseNoAudio(surat, n) == [nomorAyat |-> n, audio |-> Undefined]

\* outcomes of the request made by getSuratDetail(suratId): the request fails,
\* or it gives the chapter with three verses
SuratResponses(suratId) ==
    {Err("Gagal mengambil data"),
     Ok([nomor |-> suratId,
         ayat |-> <<VerseFull(suratId, 1), VerseOneReciter(suratId, 2),
                    VerseNoAudio(suratId, 3)>>])}

\* getSuratDetail(suratId), response being the outcome of its request
getSuratDetail(suratId, response) ==
    IF suratId = 0 \/ suratId < 1 \/ suratId > 114
    THEN Err(<<"Gagal memuat detail surat", "ID surat tidak valid">>)
    ELSE IF ~response.ok THEN Err(<<"Gagal memuat detail surat", response.err>>)
    ELSE response

\* suratDetail.ayat.find(a => a.nomorAyat == ayatNumber): the first match, undefined without one
findAyat(ayat, ayatNumber) ==
    IF \E i \in DOMAIN ayat : ayat[i].nomorAyat = ayatNumber
    THEN ayat[CHOOSE i \in DOMAIN ayat :
                 /\ ayat[i].nomorAyat = ayatNumber
                 /\ \A j \in 1..(i - 1) : ayat[j].nomorAyat # ayatNumber]
    ELSE Undefined

\* object[key] for an object given as a function of its keys
Lookup(object, key) == IF key \in DOMAIN object THEN JString(object[key]) ELSE Undefined

\* getAyatAudioUrl(suratId, ayatNumber, qariKey): the value it resolves to or
\* the error it rejects with
getAyatAudioUrl(suratId, ayatNumber, qariKey, response) ==
    LET suratDetail == getSuratDetail(suratId, response)
    IN  IF ~suratDetail.ok
        THEN Err(<<"Gagal mendapatkan URL audio">> \o suratDetail.err)
        ELSE LET ayat == findAyat(suratDetail.val.ayat, ayatNumber)
             IN  IF ayat = Undefined \/ ~Truthy(ayat.audio)
                 THEN Err(<<"Gagal mendapatkan URL audio", "Audio tidak tersedia untuk ayat ini">>)
                 ELSE LET qariId == Lookup(qariMapping, qariKey)
                      IN  Ok(IF qariId = Undefined THEN Undefined
                             ELSE IF qariId.v \in DOMAIN ayat.audio.v THEN ayat.audio.v[qariId.v]
                             ELSE Undefined)

GetAyatAudioUrl(suratId, ayatNumber, qariKey, response) ==
    /\ lastOp' = [op |-> "getAyatAudioUrl",
                  arg |-> [suratId |-> suratId, ayatNumber |-> ayatNumber, qariKey |-> qariKey,
                           response |-> response],
                  res |-> getAyatAudioUrl(suratId, ayatNumber, qariKey, response)]
    /\ UNCHANGED <<storeVars, gatewayVars, authVars, clock, ticks, addedSurat, visitLog, appVars,
                   regLog, opCount>>

NextAudio ==
    \E suratId \in {0, 1, 114}, ayatNumber \in 1..4, qariKey \in QariKeys :
        \E response \in SuratResponses(suratId) :
            GetAyatAudioUrl(suratId, ayatNumber, qariKey, response)

SpecAudio == Init /\ [][NextAudio]_vars

\* the verses of the chapter returned to the call that have the ordinal asked for
VersesAsked ==
    IF lastOp.arg.response.ok
    THEN {v \in Range(lastOp.arg.response.val.ayat) : v.nomorAyat = lastOp.arg.ayatNumber}
    ELSE {}

\* C15: getAyatAudioUrl never returns a value that is not a URL of the verse's
\* per-reciter mapping; it fails when the verse is absent, has no audio mapping
\* or has no entry for the reciter, and fails when the reciter key is not one
\* of the five recognized keys.
C15_AudioUrlOrError ==
    lastOp.op = "getAyatAudioUrl"
        => /\ lastOp.res.ok
                => \E v \in VersesAsked :
                      /\ v.audio # Undefined
                      /\ \E id \in DOMAIN v.audio.v : lastOp.res.val = v.audio.v[id]
           /\ lastOp.arg.qariKey \notin DOMAIN qariMapping => ~lastOp.res.ok
           /\ (\A v \in VersesAsked :
                  \/ v.audio = Undefined
                  \/ qariMapping[lastOp.arg.qariKey] \notin DOMAIN v.audio.v)
                => ~lastOp.res.ok

(***************************************************************************)
(* StorageManager: every store operation, with restoreBackup and           *)
(* cleanupOldData and payloads that pass the format check                  *)
(***************************************************************************)
\* getSettings(): the stored value, or the defaults when nothing is stored
getSettings(stored) == IF stored = Null THEN DefaultSettings ELSE stored

\* getTheme(): the stored value, or 'light' when it is falsy
getTheme(stored) == IF stored = "" THEN "light" ELSE stored

\* the six setting keys
SettingKeys == DOMAIN DefaultSettings

\* a bookmarks value with the same chapter and the same verse listed twice
DuplicateBookmarks ==
    [surat |-> PayloadBookmarks.surat \o PayloadBookmarks.surat,
     ayat |-> <<[suratId |-> 1, suratNama |-> <<"namaLatin", 1>>, nomorAyat |-> 1,
                 teksArab |-> "", teksIndonesia |-> "", timestamp |-> 0],
                [suratId |-> 1, suratNama |-> <<"namaLatin", 1>>, nomorAyat |-> 1,
                 teksArab |-> "", teksIndonesia |-> "", timestamp |-> 0]>>]

\* category values that pass `if (data.k)`: settings with one key, a theme
\* outside the two valid ones, bookmarks without a surat list, repeated entries
OddCategories ==
    {[settings |-> JObject([fontSize |-> "large"])],
     [theme |-> JString("sepia")],
     [bookmarks |-> JObject([ayat |-> <<>>])],
     [bookmarks |-> JObject(DuplicateBookmarks),
      history |-> JArray(PayloadHistory \o PayloadHistory)]}

\* { ...a, ...b } for the key sets of JSON objects
Merge(a, b) == [k \in DOMAIN a \cup DOMAIN b |-> IF k \in DOMAIN b THEN b[k] ELSE a[k]]

\* import payloads with a version tag and a bookmarks field that carry an odd category
OddImportPayloads ==
    {[json |-> "object",
      fields |-> Merge([version |-> JString("1.0"), bookmarks |-> JObject(DefaultBookmarks)], c)] :
        c \in OddCategories}

\* createBackup(): the four categories as the getters return them, and the metadata
createBackup ==
    [json |-> "object",
     fields |-> [data |-> JObject([bookmarks |-> JObject(bookmarks),
                                   history |-> JArray(history),
                                   settings |-> JObject(getSettings(settings)),
                                   theme |-> JString(getTheme(theme))]),
                 metadata |-> JObject([version |-> "1.0"])]]

\* backups handed to restoreBackup: a text that does not parse, one without
\* metadata, one without data, and backups that carry an odd category
RestorePayloads ==
    {[json |-> "invalid", fields |-> <<>>],
     [json |-> "object", fields |-> [data |-> JObject([theme |-> JString("dark")])]],
     [json |-> "object", fields |-> [metadata |-> JObject([version |-> "1.0"])]]}
    \cup {[json |-> "object",
           fields |-> [data |-> JObject(c), metadata |-> JObject([version |-> "1.0"])]] :
             c \in OddCategories}

\* !(!backup.data || !backup.metadata)
restoreAccepts(backup) == Truthy(Field(backup, "data")) /\ Truthy(Field(backup, "metadata"))

\* restoreBackup(backupData): p.json tells what JSON.parse makes of the text
RestoreBackup(p) ==
    /\ IF p.json \in {"invalid", "null"} \/ ~restoreAccepts(p.fields)
       THEN /\ UNCHANGED storeVars
            /\ lastOp' = [op |-> "restoreBackup", arg |-> p, res |-> FALSE]
       ELSE LET data == p.fields.data.v
            IN  /\ bookmarks' = importField(data, "bookmarks", bookmarks)
                /\ history' = importField(data, "history", history)
                /\ settings' = importField(data, "settings", settings)
                /\ theme' = importField(data, "theme", theme)
                /\ lastOp' = [op |-> "restoreBackup", arg |-> p, res |-> TRUE]
    /\ addedSurat' = {}
    /\ UNCHANGED <<gatewayVars, authVars, clock, ticks, visitLog, appVars, regLog, opCount>>

\* one day in milliseconds, and the days of 6 * 30 * 24 * 60 * 60 * 1000 ms
DayMs == 86400000
CleanupDays == 180

\* item.timestamp > Date.now() - 6 * 30 * 24 * 60 * 60 * 1000, computed in
\* whole days to stay within 32-bit integers
isRecent(timestamp, now) == (now - timestamp) \div DayMs < CleanupDays

\* if (!item.timestamp) item.timestamp = Date.now()
withTimestamp(item, now) ==
    IF "timestamp" \in DOMAIN item /\ item.timestamp # 0 THEN item
    ELSE [k \in DOMAIN item \cup {"timestamp"} |-> IF k = "timestamp" THEN now ELSE item[k]]

\* cleanupOldData(): old history entries are dropped, then bookmarks without
\* a timestamp get one
CleanupOldData ==
    /\ history' = SelectSeq(history, LAMBDA item : isRecent(item.timestamp, clock))
    /\ IF HasList(bookmarks, "surat") /\ HasList(bookmarks, "ayat")
       THEN /\ bookmarks' =
                  [surat |-> [i \in DOMAIN bookmarks.surat |->
                                 withTimestamp(bookmarks.surat[i], clock)],
                   ayat |-> [i \in DOMAIN bookmarks.ayat |->
                                withTimestamp(bookmarks.ayat[i], clock)]]
            /\ lastOp' = [op |-> "cleanupOldData", arg |-> Null, res |-> Null]
       ELSE /\ bookmarks' = bookmarks
            /\ lastOp' = Throws("cleanupOldData", Null)
    /\ UNCHANGED <<settings, theme, gatewayVars, authVars, clock, ticks, ghostVars, appVars, opCount>>

NextStoreAll ==
    \/ AddBookmarkSurat(Chapter(114))
    \/ RemoveBookmarkSurat(114)
    \/ AddBookmarkAyat(AyatData(1, 1))
    \/ RemoveBookmarkAyat(1, 1)
    \/ ClearBookmarks
    \/ AddHistory(Chapter(114))
    \/ \E t \in {"dark", "sepia"} : SetTheme(t)
    \/ UpdateSetting("fontSize", "large")
    \/ UpdateSettings([autoPlayAudio |-> TRUE, fontSize |-> "small"])
    \/ ResetSettings
    \/ ClearAllData
    \/ \E p \in OddImportPayloads \cup {[json |-> "invalid", fields |-> <<>>]} : ImportData(p)
    \/ \E p \in RestorePayloads \cup {createBackup} : RestoreBackup(p)
    \/ CleanupOldData

SpecStoreAll == Init /\ [][NextStoreAll]_vars

\* C16: getSettings() always returns a record with the six setting keys, and
\* updateSettings(partial) changes only the keys of partial.
C16_SettingsComplete ==
    [][/\ SettingKeys \subseteq DOMAIN getSettings(settings')
       /\ lastOp'.op = "updateSettings"
            => \A k \in DOMAIN settings \ DOMAIN lastOp'.arg :
                  k \in DOMAIN settings' /\ settings'[k] = settings[k]]_vars

\* C17: the stored theme is 'light' or 'dark' and getTheme() returns one of the
\* two; setTheme with any other value returns false and leaves the theme
\* unchanged.
C17_ThemeValid ==
    [][/\ theme' \in {"light", "dark"}
       /\ getTheme(theme') \in {"light", "dark"}
       /\ (lastOp'.op = "setTheme" /\ lastOp'.arg \notin {"light", "dark"})
            => (lastOp'.res = FALSE /\ theme' = theme)]_vars

\* C18: no store operation throws an error to its caller.
C18_NeverThrows == "thrown" \notin DOMAIN lastOp

\* the values of the key of a list of entries are pairwise different
Unique(list, key(_)) ==
    \A i, j \in DOMAIN list : key(list[i]) = key(list[j]) => i = j

\* C19: at most one surat bookmark per chapter number, at most one ayat
\* bookmark per (suratId, nomorAyat) pair and at most one history entry per
\* chapter id.
C19_UniqueKeys ==
    /\ HasList(bookmarks, "surat") => Unique(bookmarks.surat, LAMBDA s : s.nomor)
    /\ HasList(bookmarks, "ayat") => Unique(bookmarks.ayat, LAMBDA a : <<a.suratId, a.nomorAyat>>)
    /\ Unique(history, LAMBDA h : h.nomor)

(***************************************************************************)
(* StorageManager: getMostReadSurat                                        *)
(***************************************************************************)
\* the chapter ids of history, in the order Object.entries lists the keys of
\* suratCount: integer keys in ascending order
RECURSIVE Ascending(_)
Ascending(keys) ==
    IF keys = {} THEN <<>>
    ELSE LET least == CHOOSE k \in keys : \A other \in keys : k <= other
         IN  <<least>> \o Ascending(keys \ {least})

\* suratCount[nomor] after the forEach over history
suratCount(h, nomor) == Cardinality({i \in DOMAIN h : h[i].nomor = nomor})

\* history.find(h => h.nomor == suratId)
findNomor(h, suratId) ==
    h[CHOOSE i \in DOMAIN h : h[i].nomor = suratId /\ \A j \in 1..(i - 1) : h[j].nomor # suratId]

\* the forEach over Object.entries(suratCount) from entry k on, with the
\* running mostRead and maxCount
RECURSIVE scanCounts(_, _, _, _, _)
scanCounts(h, entries, k, mostRead, maxCount) ==
    IF k > Len(entries) THEN [mostRead |-> mostRead, maxCount |-> maxCount]
    ELSE IF suratCount(h, entries[k]) > maxCount
         THEN scanCounts(h, entries, k + 1, findNomor(h, entries[k]), suratCount(h, entries[k]))
         ELSE scanCounts(h, entries, k + 1, mostRead, maxCount)

\* getMostReadSurat(history)
getMostReadSurat(h) ==
    IF h = <<>> THEN Null
    ELSE LET scan == scanCounts(h, Ascending({h[i].nomor : i \in DOMAIN h}), 1, Null, 0)
         IN  IF scan.mostRead = Null THEN Null
             ELSE [k \in DOMAIN scan.mostRead \cup {"readCount"} |->
                      IF k = "readCount" THEN scan.maxCount ELSE scan.mostRead[k]]

\* histories of up to MaxHistoryLen entries over three chapters, repeats
\* included; the timestamp tells the entries of a chapter apart
RECURSIVE HistoriesOfLen(_)
HistoriesOfLen(n) ==
    IF n = 0 THEN {<<>>}
    ELSE {<<[nomor |-> c, nama |-> <<"nama", c>>, namaLatin |-> <<"namaLatin", c>>,
             timestamp |-> n]>> \o rest : c \in {1, 2, 114}, rest \in HistoriesOfLen(n - 1)}

GetMostReadSurat(h) ==
    /\ lastOp' = [op |-> "getMostReadSurat", arg |-> h, res |-> getMostReadSurat(h)]
    /\ UNCHANGED <<storeVars, gatewayVars, authVars, clock, ticks, addedSurat, visitLog, appVars,
                   regLog, opCount>>

NextMostRead == \E n \in 0..MaxHistoryLen : \E h \in HistoriesOfLen(n) : GetMostReadSurat(h)

SpecMostRead == Init /\ [][NextMostRead]_vars

\* the greatest number of entries a chapter has in h
MaxCount(h) ==
    CHOOSE m \in 0..Len(h) :
        /\ \A i \in DOMAIN h : suratCount(h, h[i].nomor) <= m
        /\ \E i \in DOMAIN h : suratCount(h, h[i].nomor) = m

\* the first entry from the head of h whose chapter has the greatest count
FirstOfMaxCount(h) ==
    h[CHOOSE i \in DOMAIN h :
         /\ suratCount(h, h[i].nomor) = MaxCount(h)
         /\ \A j \in 1..(i - 1) : suratCount(h, h[j].nomor) # MaxCount(h)]

\* C20: getMostReadSurat returns null for an empty history; otherwise an entry
\* of a chapter with the greatest number of history entries, and among tied
\* chapters the one met first when the history is scanned from its head.
C20_MostReadFirstMet ==
    lastOp.op = "getMostReadSurat"
        => IF lastOp.arg = <<>> THEN lastOp.res = Null
           ELSE /\ lastOp.res # Null
                /\ suratCount(lastOp.arg, lastOp.res.nomor) = MaxCount(lastOp.arg)
                /\ lastOp.res.readCount = MaxCount(lastOp.arg)
                /\ lastOp.res.nomor = FirstOfMaxCount(lastOp.arg).nomor

(***************************************************************************)
(* AuthManager: resetPassword followed by a login with the temporary       *)
(* password                                                                *)
(***************************************************************************)
\* accounts lists of active accounts found under quran_app_users
ActiveAccountLists ==
    {<<StoredAccount(1, <<"a", "m", "y">>, TRUE)>>,
     <<StoredAccount(1, <<"b", "o", "b">>, TRUE), StoredAccount(2, <<"a", "m", "y">>, TRUE)>>}

InitReset ==
    /\ InitStore
    /\ InitGateway
    /\ InitRest
    /\ visitLog = <<>>
    /\ users \in ActiveAccountLists
    /\ session = Null
    /\ currentUser = Null
    /\ idCounter = Len(users)

NextReset ==
    \/ \E u \in Usernames, t \in TempPasswords : AuthCall /\ ResetPassword(u, t)
    \/ \E u \in Usernames, p \in Passwords \cup TempPasswords : AuthCall /\ Login(u, p)
    \/ AuthCall /\ Logout
    \/ Tick(SessionMs)

SpecReset == InitReset /\ [][NextReset]_vars

\* C21: resetPassword(u) for a user name that matches an account ignoring case
\* returns an 8-character temporary password t, stores its checksum and the
\* must-change-password flag in that account and changes no other account and
\* no session record; a login(u, t) that follows succeeds; for an unknown user
\* name resetPassword fails and changes nothing.
C21_ResetPassword ==
    [][/\ (lastOp'.op = "resetPassword" /\ opCount' # opCount)
            => LET m == NameMatches(users, lastOp'.arg)
               IN  /\ session' = session
                   /\ currentUser' = currentUser
                   /\ IF m = {}
                      THEN ~lastOp'.res.ok /\ users' = users
                      ELSE /\ lastOp'.res.ok
                           /\ Len(lastOp'.res.val) = 8
                           /\ DOMAIN users' = DOMAIN users
                           /\ "mustChangePassword" \in DOMAIN users'[First(m)]
                           /\ users'[First(m)].mustChangePassword = TRUE
                           /\ users'[First(m)].password = hashPassword(lastOp'.res.val)
                           /\ users'[First(m)].id = users[First(m)].id
                           /\ \A j \in DOMAIN users : j # First(m) => users'[j] = users[j]
       /\ (lastOp.op = "resetPassword" /\ lastOp.res.ok
             /\ lastOp'.op = "login" /\ opCount' # opCount
             /\ lastOp'.arg.username = lastOp.arg /\ lastOp'.arg.password = lastOp.res.val)
            => (lastOp'.res.ok /\ lastOp'.res.val.id = users[First(NameMatches(users, lastOp.arg))].id)]_vars

\* C21 happens: with amy logged in, the password of Bob's account was reset
\* and the login with the temporary password has just succeeded.
C21_Witness ==
    /\ lastOp.op = "login"
    /\ lastOp.res.ok
    /\ lastOp.arg.password \in TempPasswords
    /\ opCount = 3
    /\ session # Null
    /\ \E i \in DOMAIN users :
          /\ users[i].id = session.userId
          /\ "mustChangePassword" \in DOMAIN users[i]
    /\ \E j \in DOMAIN users : "mustChangePassword" \notin DOMAIN users[j]

\* ---------------------------------------------------------------------------
\* Session record and current-user record (auth.js: createUserSession, logout,
\* deleteAccount, clearAllAuthData)
\* ---------------------------------------------------------------------------

\* C27: in every reachable state of the account simulator the stored session
\* record and the stored current-user record are both present or both absent;
\* when present, session.userId is the current-user record's id and that id
\* is the id of an account in the accounts list.
C27_SessionUserPaired ==
    /\ (session = Null) <=> (currentUser = Null)
    /\ session # Null =>
         /\ session.userId = currentUser.id
         /\ findById(users, currentUser.id) # 0

\* a session is stored for the second of two accounts after another operation
\* has rewritten the accounts list
C27_Witness ==
    /\ session # Null
    /\ currentUser # Null
    /\ Len(users) = 2
    /\ session.userId = users[2].id
    /\ lastOp.op \in {"changePassword", "updateProfile", "resetPassword"}
    /\ lastOp.res.ok

\* ---------------------------------------------------------------------------
\* Expired sessions (auth.js: extendSession, isSessionValid, getCurrentUser)
\* ---------------------------------------------------------------------------

\* the stored session's expiresAt has passed
Expired == session # Null /\ clock > session.expiresAt

\* getCurrentUser() called in the current state would return null
NoCurrentUser == getCurrentUser(session, currentUser, clock) = Null

SuccessfulSignIn == lastOp'.op \in {"login", "register"} /\ lastOp'.res.ok

ExpiredStaysExpired ==
    /\ (Expired /\ opCount' # opCount /\ lastOp'.op = "extendSession") =>
          /\ lastOp'.res = Ok(FALSE)
          /\ session' = session
    /\ (Expired /\ ~SuccessfulSignIn) => (session' = Null \/ session' = session)
    /\ (NoCurrentUser /\ ~SuccessfulSignIn) => NoCurrentUser'
    /\ (opCount' # opCount /\ lastOp'.op = "getCurrentUser" /\ lastOp'.res # Null) =>
          ~Expired /\ session # Null

\* C30: once the current time has passed a session's expiresAt, extendSession
\* returns false and leaves expiresAt unchanged, and no step other than a
\* successful login or register brings back a state in which getCurrentUser
\* returns a user.
C30_ExpiredNotRevived == [][ExpiredStaysExpired]_vars

\* extendSession has been called on a stored session whose expiry had passed,
\* and the session record is still stored
C30_Witness ==
    /\ lastOp.op = "extendSession"
    /\ lastOp.arg.session
    /\ lastOp.arg.expired
    /\ lastOp.res = Ok(FALSE)
    /\ session # Null
    /\ clock > session.expiresAt

\* ---------------------------------------------------------------------------
\* Overlapping getCachedData calls (api.js: getCachedData)
\* ---------------------------------------------------------------------------

\* a call for key is awaiting its producer
Awaiting(key) == \E call \in inflight : call.key = key

\* C28: when a getCachedData call for key k starts while an earlier call for k
\* is still awaiting its producer, the producer is not invoked again; a call
\* that returns after an overlapping call has stored its value returns that
\* value and the entry holds it; a producer that fails stores no entry for k.
C28_OverlapSharesProducer ==
    [][/\ (lastOp'.op = "getCachedData" /\ opCount' # opCount /\ Awaiting(lastOp'.arg))
            => fetchCount' = fetchCount
       /\ (lastOp'.op = "getCachedData.return" /\ inflight' # inflight /\ lastOp'.res.ok
             /\ cache[lastOp'.arg.key] # Null)
            => /\ lastOp'.res.val = cache[lastOp'.arg.key].data
               /\ cache'[lastOp'.arg.key].data = cache[lastOp'.arg.key].data
       /\ (lastOp'.op = "getCachedData.return" /\ inflight' # inflight /\ ~lastOp'.res.ok)
            => cache'[lastOp'.arg.key] = cache[lastOp'.arg.key]]_vars

(***************************************************************************)
(* StorageManager: exportData / importData and createBackup / restoreBackup *)
(* round trips                                                             *)
(***************************************************************************)
\* getBookmarks() / getHistory(): the stored value, or the default when nothing is stored
getBookmarks(stored) == IF stored = Null THEN DefaultBookmarks ELSE stored

getHistory(stored) == IF stored = Null THEN <<>> ELSE stored

\* exportData(): the text it returns, as JSON.parse reads it back
exportData_NoTheme ==
    [json |-> "object",
     fields |-> [bookmarks |-> JObject(getBookmarks(bookmarks)),
                 history |-> JArray(getHistory(history)),
                 settings |-> JObject(getSettings(settings)),
                 exportDate |-> JString(<<"date", clock>>),
                 version |-> JString("1.0")]]

exportData ==
    [json |-> "object",
     fields |-> [bookmarks |-> JObject(getBookmarks(bookmarks)),
                 history |-> JArray(getHistory(history)),
                 settings |-> JObject(getSettings(settings)),
                 theme |-> JString(getTheme(theme)),
                 exportDate |-> JString(<<"date", clock>>),
                 version |-> JString("1.0")]]

\* the four categories of the store
Store == [bookmarks |-> bookmarks, history |-> history, settings |-> settings,
          theme |-> theme]

\* the page keeps the text of exportData(); one text is kept at a time
ExportData ==
    /\ exported.export = Null
    /\ exported' = [exported EXCEPT !.export = [text |-> exportData, store |-> Store]]
    /\ lastOp' = [op |-> "exportData", arg |-> Null, res |-> exportData]
    /\ UNCHANGED <<storeVars, gatewayVars, authVars, clock, ticks, ghostVars, opCount,
                   controllerVars, requestVars>>

\* the page keeps the text of createBackup()
CreateBackup ==
    /\ exported.backup = Null
    /\ exported' = [exported EXCEPT !.backup = [text |-> createBackup, store |-> Store]]
    /\ lastOp' = [op |-> "createBackup", arg |-> Null, res |-> createBackup]
    /\ UNCHANGED <<storeVars, gatewayVars, authVars, clock, ticks, ghostVars, opCount,
                   controllerVars, requestVars>>

\* the texts kept by the page
ExportedTexts == IF exported.export = Null THEN {} ELSE {exported.export.text}

BackupTexts == IF exported.backup = Null THEN {} ELSE {exported.backup.text}

\* store operations between taking a text and handing it back, then
\* importData and restoreBackup of the texts taken earlier
NextRoundTrip ==
    \/ AddBookmarkSurat(Chapter(114))
    \/ AddHistory(Chapter(114))
    \/ SetTheme("dark")
    \/ UpdateSetting("fontSize", "large")
    \/ ClearAllData
    \/ \E p \in {q \in OddImportPayloads : "theme" \in DOMAIN q.fields} : ImportData(p)
    \/ ExportData
    \/ CreateBackup
    \/ \E p \in ExportedTexts : ImportData(p)
    \/ \E p \in BackupTexts : RestoreBackup(p)

SpecRoundTrip == Init /\ [][NextRoundTrip]_vars

\* C22: importData of a text exportData() returned earlier succeeds and makes
\* bookmarks, history, settings and theme equal to their values in the store
\* the text was taken in, whatever the store holds by then; restoreBackup of a
\* text createBackup() returned earlier does the same.
C22_RoundTrip ==
    [][/\ (lastOp'.op = "importData" /\ lastOp'.arg \in ExportedTexts)
            => /\ lastOp'.res = TRUE
               /\ Store' = exported.export.store
       /\ (lastOp'.op = "restoreBackup" /\ lastOp'.arg \in BackupTexts)
            => /\ lastOp'.res = TRUE
               /\ Store' = exported.backup.store]_vars

\* a text exported from a store with a dark theme, an empty history and no
\* bookmarks has been imported, after a backup had been taken in a store with
\* a bookmark, a history entry and the light theme, and has replaced them
C22_Witness ==
    /\ lastOp.op = "importData"
    /\ lastOp.arg \in ExportedTexts
    /\ lastOp.res = TRUE
    /\ exported.export.store.theme = "dark"
    /\ exported.export.store.history = <<>>
    /\ exported.backup # Null
    /\ exported.backup.store.theme = "light"
    /\ Len(exported.backup.store.history) = 1
    /\ Len(exported.backup.store.bookmarks.surat) = 1
    /\ Store = exported.export.store

(***************************************************************************)
(* QuranAPI: getSuratList / getSuratDetail / getTafsir over fetchAPI        *)
(***************************************************************************)
\* !suratId || suratId < 1 || suratId > 114
invalidSuratId(suratId) == suratId = 0 \/ suratId < 1 \/ suratId > 114

\* the endpoint of a chapter request
SuratEndpoint(suratId) == IF suratId = 1 THEN "/surat/1" ELSE "/surat/other"

TafsirEndpoint(suratId) == IF suratId = 1 THEN "/tafsir/1" ELSE "/tafsir/other"

\* what the server answers on an endpoint: data.data of a response with code 200
ServerData(endpoint) == <<"data", endpoint>>

\* fetchAPI(endpoint) up to `await fetch(url)`: one more HTTP request is issued
fetchAPI(op, arg, endpoint) ==
    /\ requests' = requests \cup {[id |-> opCount + 1, op |-> op, endpoint |-> endpoint]}
    /\ httpCount' = [httpCount EXCEPT ![endpoint] = @ + 1]
    /\ lastOp' = [op |-> op, arg |-> arg, res |-> Null]
    /\ UNCHANGED answered

\* one call of a QuranAPI method
GatewayCall ==
    /\ opCount < MaxOps
    /\ opCount' = opCount + 1
    /\ UNCHANGED <<storeVars, gatewayVars, authVars, clock, ticks, ghostVars, controllerVars,
                   exported>>

GetSuratList == GatewayCall /\ fetchAPI("getSuratList", Null, "/surat")

GetSuratDetail(suratId) ==
    /\ GatewayCall
    /\ IF invalidSuratId(suratId)
       THEN /\ lastOp' = [op |-> "getSuratDetail", arg |-> suratId,
                          res |-> Err(<<"Gagal memuat detail surat", "ID surat tidak valid">>)]
            /\ UNCHANGED requestVars
       ELSE fetchAPI("getSuratDetail", suratId, SuratEndpoint(suratId))

GetTafsir(suratId) ==
    /\ GatewayCall
    /\ IF invalidSuratId(suratId)
       THEN /\ lastOp' = [op |-> "getTafsir", arg |-> suratId,
                          res |-> Err(<<"Gagal memuat tafsir", "ID surat tidak valid">>)]
            /\ UNCHANGED requestVars
       ELSE fetchAPI("getTafsir", suratId, TafsirEndpoint(suratId))

\* the HTTP request of a waiting call is answered with code 200: the call returns the data
FetchResolves(request) ==
    /\ request \in requests
    /\ requests' = requests \ {request}
    /\ answered' = [answered EXCEPT ![request.endpoint] =
                       [data |-> ServerData(request.endpoint), at |-> clock]]
    /\ lastOp' = [op |-> "fetchAPI.return", arg |-> request,
                  res |-> Ok(ServerData(request.endpoint))]
    /\ UNCHANGED <<httpCount, storeVars, gatewayVars, authVars, clock, ticks, ghostVars,
                   opCount, controllerVars, exported>>

\* the HTTP request fails or is answered with an error: the call rejects
FetchRejects(request) ==
    /\ request \in requests
    /\ requests' = requests \ {request}
    /\ lastOp' = [op |-> "fetchAPI.return", arg |-> request, res |-> Err("Gagal mengambil data")]
    /\ UNCHANGED <<httpCount, answered, storeVars, gatewayVars, authVars, clock, ticks,
                   ghostVars, opCount, controllerVars, exported>>

NextGateway ==
    \/ GetSuratList
    \/ \E suratId \in {0, 1, 115} : GetSuratDetail(suratId)
    \/ \E suratId \in {0, 1} : GetTafsir(suratId)
    \/ \E request \in requests : FetchResolves(request)
    \/ \E request \in requests : FetchRejects(request)
    \/ \E d \in {CacheTTL - 1, 1} : Tick(d)

SpecGateway == Init /\ [][NextGateway]_vars

\* the endpoint a gateway call asks for
EndpointOf(op, arg) ==
    IF op = "getSuratList" THEN "/surat"
    ELSE IF op = "getSuratDetail" THEN SuratEndpoint(arg)
    ELSE TafsirEndpoint(arg)

\* C23: after a successful getSuratList, getSuratDetail(id) or getTafsir(id), a
\* call with the same request key made less than one hour (3,600,000 ms) later
\* returns the memoized response and issues no upstream HTTP request.
C23_GatewayMemoizes ==
    [][(/\ lastOp'.op \in {"getSuratList", "getSuratDetail", "getTafsir"}
        /\ opCount' # opCount
        /\ EndpointOf(lastOp'.op, lastOp'.arg) \in Endpoints
        /\ answered[EndpointOf(lastOp'.op, lastOp'.arg)] # Null
        /\ clock - answered[EndpointOf(lastOp'.op, lastOp'.arg)].at < 3600000)
         => /\ httpCount' = httpCount
            /\ lastOp'.res = Ok(answered[EndpointOf(lastOp'.op, lastOp'.arg)].data)]_vars

(***************************************************************************)
(* QuranApp: loadSuratDetail, chapter navigation, showAyatTafsir            *)
(***************************************************************************)
\* what getTafsir(suratId) resolves to: commentary entries for the verses 1
\* and 2 of the chapter, none for verse 3
TafsirOf(suratId) ==
    [nomor |-> suratId,
     tafsir |-> <<[ayat |-> 1, teks |-> <<"teks", suratId, 1>>],
                  [ayat |-> 2, teks |-> <<"teks", suratId, 2>>]>>]

\* outcomes of the two requests of loadSuratDetail(suratId)
DetailOutcomes(suratId) == {Ok(Chapter(suratId)), Err("Gagal memuat detail surat")}

TafsirOutcomes(suratId) == {Ok(TafsirOf(suratId)), Err("Gagal memuat tafsir")}

\* Promise.all([detail, tafsir]) with Null for a promise not yet settled:
\* rejected as soon as one is rejected, fulfilled when both are, else pending
promiseAll_First(detail, tafsir) ==
    IF detail # Null /\ ~detail.ok THEN detail
    ELSE IF tafsir # Null /\ ~tafsir.ok THEN tafsir
    ELSE IF detail = Null THEN Null
    ELSE Ok(<<detail.val, IF tafsir = Null THEN <<>> ELSE tafsir.val>>)

promiseAll(detail, tafsir) ==
    IF detail # Null /\ ~detail.ok THEN detail
    ELSE IF tafsir # Null /\ ~tafsir.ok THEN tafsir
    ELSE IF detail = Null \/ tafsir = Null THEN Null
    ELSE Ok(<<detail.val, tafsir.val>>)

\* this.state.currentSurat = suratDetail; this.state.tafsirData = tafsirData
applyLoad_SuratOnly(st, suratDetail, tafsirData) ==
    [st EXCEPT !.currentSurat = suratDetail]

applyLoad(st, suratDetail, tafsirData) ==
    [st EXCEPT !.currentSurat = suratDetail, !.tafsirData = tafsirData]

\* showLoading / hideLoading of 'surat-header' and 'ayat-list'
showLoading(pg) == [show |-> "loading"]

hideLoading(pg) == IF pg.show = "loading" THEN [show |-> "empty"] ELSE pg

\* renderSuratHeader(suratDetail); renderAyatList(suratDetail.ayat)
renderSurat(suratDetail) == [show |-> "surat", nomor |-> suratDetail.nomor]

\* loadSuratDetail(suratId) up to `await Promise.all(...)`
LoadSuratDetail(suratId) ==
    /\ Len(callLog.requested) < MaxLoads
    /\ callLog' = [callLog EXCEPT !.requested = Append(@, suratId)]
    /\ loads' = loads \cup {[id |-> Len(callLog.requested) + 1, suratId |-> suratId,
                             detail |-> Null, tafsir |-> Null]}
    /\ page' = showLoading(page)
    /\ UNCHANGED <<state, audios, lookups, storeVars, gatewayVars, authVars, clock, ticks,
                   ghostVars, opCount, requestVars, exported>>

\* a click on a chapter of the sidebar
SidebarSuratClick(suratId) ==
    /\ LoadSuratDetail(suratId)
    /\ lastOp' = [op |-> "sidebarSuratClick", arg |-> suratId, res |-> Null]

\* a click that loads nothing
NoLoad(op) ==
    /\ lastOp' = [op |-> op, arg |-> Null, res |-> Null]
    /\ UNCHANGED <<controllerVars, storeVars, gatewayVars, authVars, clock, ticks,
                   ghostVars, opCount, requestVars, exported>>

\* clicks on the previous-chapter and next-chapter buttons;
\* parseInt(this.state.currentSurat?.nomor) is NaN without a chapter
PrevSuratClick ==
    IF state.currentSurat # Null /\ state.currentSurat.nomor > 1
    THEN /\ LoadSuratDetail(state.currentSurat.nomor - 1)
         /\ lastOp' = [op |-> "prevSuratClick", arg |-> state.currentSurat.nomor - 1,
                       res |-> Null]
    ELSE NoLoad("prevSuratClick")

NextSuratClick ==
    IF state.currentSurat # Null /\ state.currentSurat.nomor < 114
    THEN /\ LoadSuratDetail(state.currentSurat.nomor + 1)
         /\ lastOp' = [op |-> "nextSuratClick", arg |-> state.currentSurat.nomor + 1,
                       res |-> Null]
    ELSE NoLoad("nextSuratClick")

\* one of the two requests of a waiting loadSuratDetail settles; when this
\* settles Promise.all the rest of loadSuratDetail runs
Settles(load, part, outcome) ==
    /\ load \in loads
    /\ load[part] = Null
    /\ LET settled == [load EXCEPT ![part] = outcome]
           all     == promiseAll(settled.detail, settled.tafsir)
       IN  IF all = Null
           THEN /\ loads' = (loads \ {load}) \cup {settled}
                /\ lastOp' = [op |-> "loadSuratDetail.await", arg |-> settled, res |-> Null]
                /\ UNCHANGED <<state, page, callLog, history, visitLog>>
           ELSE IF all.ok
           THEN /\ loads' = loads \ {load}
                /\ state' = applyLoad(state, all.val[1], all.val[2])
                /\ page' = hideLoading(renderSurat(all.val[1]))
                /\ history' = addHistory(history, all.val[1], clock)
                /\ visitLog' = Append(visitLog, all.val[1].nomor)
                /\ callLog' = [callLog EXCEPT !.applied = Append(@, load.id)]
                /\ lastOp' = [op |-> "loadSuratDetail.return", arg |-> settled,
                              res |-> Ok(TRUE)]
           ELSE /\ loads' = loads \ {load}
                /\ page' = hideLoading(page)
                /\ lastOp' = [op |-> "loadSuratDetail.return", arg |-> settled,
                              res |-> Err("Gagal memuat detail surat")]
                /\ UNCHANGED <<state, callLog, history, visitLog>>
    /\ UNCHANGED <<audios, lookups, bookmarks, settings, theme, gatewayVars, authVars, clock,
                   ticks, addedSurat, regLog, opCount, requestVars, exported>>

\* tafsirData?.tafsir?.find(t => t.ayat == ayatNumber)
findTafsir(tafsirData, ayatNumber) ==
    IF tafsirData = <<>> THEN Undefined
    ELSE IF \E i \in DOMAIN tafsirData.tafsir : tafsirData.tafsir[i].ayat = ayatNumber
    THEN tafsirData.tafsir[CHOOSE i \in DOMAIN tafsirData.tafsir :
            /\ tafsirData.tafsir[i].ayat = ayatNumber
            /\ \A j \in 1..(i - 1) : tafsirData.tafsir[j].ayat # ayatNumber]
    ELSE Undefined

\* showAyatTafsir(ayatNumber): the commentary text, or 'Tafsir tidak tersedia'
ShowAyatTafsir(ayatNumber) ==
    /\ lastOp' = [op |-> "showAyatTafsir", arg |-> ayatNumber,
                  res |-> IF findTafsir(state.tafsirData, ayatNumber) # Undefined
                          THEN [shown |-> "text",
                                teks |-> findTafsir(state.tafsirData, ayatNumber).teks]
                          ELSE [shown |-> "empty"]]
    /\ UNCHANGED <<controllerVars, storeVars, gatewayVars, authVars, clock, ticks,
                   ghostVars, opCount, requestVars, exported>>

NextLoad ==
    \/ \E suratId \in {1, 2} : SidebarSuratClick(suratId)
    \/ PrevSuratClick
    \/ NextSuratClick
    \/ \E load \in loads : \E outcome \in DetailOutcomes(load.suratId) :
          Settles(load, "detail", outcome)
    \/ \E load \in loads : \E outcome \in TafsirOutcomes(load.suratId) :
          Settles(load, "tafsir", outcome)
    \/ \E ayatNumber \in 1..3 : ShowAyatTafsir(ayatNumber)

SpecLoad == Init /\ [][NextLoad]_vars

\* C25: the result of a loadSuratDetail request issued earlier is never applied
\* after the result of a later one, so once no load is in flight (the latest
\* request having succeeded) state.currentSurat, state.tafsirData and the
\* history head are those of the most recently requested chapter.
C25_LatestLoadWins ==
    /\ \A i, j \in DOMAIN callLog.applied :
          i < j => callLog.applied[i] < callLog.applied[j]
    /\ (loads = {} /\ Len(callLog.requested) \in Range(callLog.applied))
          => /\ state.currentSurat.nomor = callLog.requested[Len(callLog.requested)]
             /\ state.tafsirData.nomor = callLog.requested[Len(callLog.requested)]
             /\ history[1].nomor = callLog.requested[Len(callLog.requested)]

\* the chapter of the page, its state and the stored history
ChapterView == <<state.currentSurat, state.tafsirData, history>>

\* C26: loadSuratDetail(id) renders the chapter, assigns state.currentSurat and
\* state.tafsirData and records history only when both getSuratDetail(id) and
\* getTafsir(id) have succeeded; when either fails nothing of the chapter is
\* rendered and state.currentSurat, state.tafsirData and the stored history
\* stay as they were.
C26_JoinPoint ==
    [][/\ (ChapterView' # ChapterView \/ (page'.show = "surat" /\ page' # page))
            => /\ lastOp'.op = "loadSuratDetail.return"
               /\ lastOp'.res.ok
               /\ lastOp'.arg.detail = Ok(Chapter(lastOp'.arg.suratId))
               /\ lastOp'.arg.tafsir = Ok(TafsirOf(lastOp'.arg.suratId))
               /\ state'.currentSurat = lastOp'.arg.detail.val
               /\ state'.tafsirData = lastOp'.arg.tafsir.val
               /\ page' = [show |-> "surat", nomor |-> lastOp'.arg.suratId]
               /\ history'[1].nomor = lastOp'.arg.suratId
       /\ (lastOp'.op = "loadSuratDetail.return" /\ loads' # loads /\ ~lastOp'.res.ok)
            => /\ ChapterView' = ChapterView
               /\ page' \in {page, [show |-> "empty"]}]_vars

\* a load of another chapter than the one shown has failed on its commentary
\* request after its chapter request had succeeded
C26_Witness ==
    /\ lastOp.op = "loadSuratDetail.return"
    /\ ~lastOp.res.ok
    /\ lastOp.arg.detail = Ok(Chapter(lastOp.arg.suratId))
    /\ lastOp.arg.tafsir # Null
    /\ ~lastOp.arg.tafsir.ok
    /\ state.currentSurat # Null
    /\ state.currentSurat.nomor # lastOp.arg.suratId
    /\ Len(history) = 1

\* C29: state.currentSurat and state.tafsirData always belong to the same
\* chapter, which is the chapter the page shows, so showAyatTafsir reads the
\* commentary of the chapter displayed; for a verse without a commentary entry
\* it renders 'no commentary' and throws nothing.
C29_SameChapter ==
    /\ state.currentSurat = Null => state.tafsirData = <<>>
    /\ state.currentSurat # Null
          => /\ state.tafsirData # <<>>
             /\ state.tafsirData.nomor = state.currentSurat.nomor
    /\ page.show = "surat"
          => /\ state.currentSurat # Null
             /\ page.nomor = state.currentSurat.nomor
    /\ lastOp.op = "showAyatTafsir"
          => /\ "thrown" \notin DOMAIN lastOp
             /\ IF state.currentSurat # Null /\ lastOp.arg \in {1, 2}
                THEN lastOp.res = [shown |-> "text",
                                   teks |-> <<"teks", state.currentSurat.nomor, lastOp.arg>>]
                ELSE lastOp.res = [shown |-> "empty"]

\* two overlapping loads of different chapters were applied in the reverse
\* order of their requests, and the commentary of verse 3, which has no entry,
\* was then asked for
C29_Witness ==
    /\ lastOp.op = "showAyatTafsir"
    /\ lastOp.arg = 3
    /\ lastOp.res = [shown |-> "empty"]
    /\ callLog.applied = <<2, 1>>
    /\ callLog.requested[1] # callLog.requested[2]
    /\ state.currentSurat.nomor = callLog.requested[1]

(***************************************************************************)
(* QuranApp: playAyatAudio, pauseCurrentAudio, stopCurrentAudio and the     *)
(* 'ended' and 'error' listeners of the Audio elements                      *)
(***************************************************************************)
\* the controller once loadSuratDetail(1) has shown chapter 1
InitPlayer ==
    /\ InitGateway
    /\ InitAuth
    /\ bookmarks = DefaultBookmarks
    /\ settings = DefaultSettings
    /\ theme = "light"
    /\ history = addHistory(<<>>, Chapter(1), 0)
    /\ visitLog = <<1>>
    /\ state = [currentSurat |-> Chapter(1), tafsirData |-> TafsirOf(1), currentQari |-> "",
                currentAudio |-> Null, isPlaying |-> FALSE]
    /\ page = renderSurat(Chapter(1))
    /\ loads = {}
    /\ audios = <<>>
    /\ lookups = {}
    /\ callLog = [requested |-> <<1>>, applied |-> <<1>>, plays |-> 0]
    /\ exported = [export |-> Null, backup |-> Null]
    /\ clock = 0
    /\ ticks = 0
    /\ opCount = 0
    /\ lastOp = [op |-> "new", arg |-> Null, res |-> Null]
    /\ addedSurat = {}
    /\ regLog = {}

\* what the audio steps leave alone
PlayerFrame ==
    UNCHANGED <<page, loads, storeVars, gatewayVars, authVars, clock, ticks, ghostVars, opCount,
                requestVars, exported>>

\* the element state.currentAudio refers to
Current == state.currentAudio.element

\* the 'change' listener of the reciter selector
QariChange(qari) ==
    /\ state' = [state EXCEPT !.currentQari = qari]
    /\ lastOp' = [op |-> "qariChange", arg |-> qari, res |-> Null]
    /\ UNCHANGED <<audios, lookups, callLog>>
    /\ PlayerFrame

\* playAyatAudio(ayatNumber) up to `await this.api.getAyatAudioUrl(...)`
PlayAyatAudio(ayatNumber) ==
    /\ IF state.currentQari = ""
       THEN /\ lastOp' = [op |-> "playAyatAudio", arg |-> ayatNumber,
                          res |-> "Pilih qari terlebih dahulu"]
            /\ UNCHANGED <<lookups, callLog>>
       ELSE /\ callLog.plays < MaxPlays
            /\ callLog' = [callLog EXCEPT !.plays = @ + 1]
            /\ lookups' = lookups \cup
                  {[id |-> callLog.plays + 1, surat |-> state.currentSurat.nomor,
                    ayat |-> ayatNumber, qari |-> state.currentQari]}
            /\ lastOp' = [op |-> "playAyatAudio", arg |-> ayatNumber, res |-> Null]
    /\ UNCHANGED <<state, audios>>
    /\ PlayerFrame

\* stopCurrentAudio(): the elements and the state it leaves
stopCurrentAudio_audios(au, st) ==
    IF st.currentAudio # Null
    THEN [au EXCEPT ![st.currentAudio.element].status = "stopped"]
    ELSE au

stopCurrentAudio_state(st) ==
    IF st.currentAudio # Null
    THEN [st EXCEPT !.currentAudio = Null, !.isPlaying = FALSE]
    ELSE st

\* the audio-URL lookup of a waiting playAyatAudio settles, response being the
\* outcome of its chapter request: with a URL the current audio is stopped and
\* a new element is created, made current and played; a rejection is caught
LookupSettles(call, response) ==
    /\ call \in lookups
    /\ lookups' = lookups \ {call}
    /\ LET audioUrl == getAyatAudioUrl(call.surat, call.ayat, call.qari, response)
       IN  IF audioUrl.ok
           THEN /\ audios' = Append(stopCurrentAudio_audios(audios, state),
                                    [status |-> "playing", loading |-> TRUE,
                                     src |-> audioUrl.val])
                /\ state' = [state EXCEPT !.currentAudio = [element |-> Len(audios) + 1],
                                          !.isPlaying = TRUE]
                /\ lastOp' = [op |-> "playAyatAudio.return", arg |-> call, res |-> Ok(TRUE)]
           ELSE /\ lastOp' = [op |-> "playAyatAudio.return", arg |-> call,
                              res |-> Err("Gagal memutar audio")]
                /\ UNCHANGED <<state, audios>>
    /\ UNCHANGED callLog
    /\ PlayerFrame

PauseCurrentAudio ==
    /\ IF state.currentAudio # Null /\ state.isPlaying
       THEN /\ audios' = [audios EXCEPT ![Current].status =
                             IF @ = "playing" THEN "paused" ELSE @]
            /\ state' = [state EXCEPT !.isPlaying = FALSE]
       ELSE UNCHANGED <<state, audios>>
    /\ lastOp' = [op |-> "pauseCurrentAudio", arg |-> Null, res |-> Null]
    /\ UNCHANGED <<lookups, callLog>>
    /\ PlayerFrame

StopCurrentAudio ==
    /\ audios' = stopCurrentAudio_audios(audios, state)
    /\ state' = stopCurrentAudio_state(state)
    /\ lastOp' = [op |-> "stopCurrentAudio", arg |-> Null, res |-> Null]
    /\ UNCHANGED <<lookups, callLog>>
    /\ PlayerFrame

\* the element has all its data: no network error can follow
AudioLoaded(i) ==
    /\ i \in DOMAIN audios
    /\ audios[i].loading
    /\ audios' = [audios EXCEPT ![i].loading = FALSE]
    /\ lastOp' = [op |-> "audio.loaded", arg |-> i, res |-> Null]
    /\ UNCHANGED <<state, lookups, callLog>>
    /\ PlayerFrame

\* a playing element reaches its end: its 'ended' listener runs
AudioEnded(i) ==
    /\ i \in DOMAIN audios
    /\ audios[i].status = "playing"
    /\ audios' = [audios EXCEPT ![i].status = "ended", ![i].loading = FALSE]
    /\ state' = [state EXCEPT !.isPlaying = FALSE, !.currentAudio = Null]
    /\ lastOp' = [op |-> "audio.ended", arg |-> i, res |-> Null]
    /\ UNCHANGED <<lookups, callLog>>
    /\ PlayerFrame

\* the download of an element fails, whether it plays, is paused or was
\* stopped meanwhile: its 'error' listener runs
AudioError(i) ==
    /\ i \in DOMAIN audios
    /\ audios[i].loading
    /\ audios[i].status \in {"playing", "paused", "stopped"}
    /\ audios' = [audios EXCEPT ![i].status = "failed", ![i].loading = FALSE]
    /\ state' = [state EXCEPT !.isPlaying = FALSE, !.currentAudio = Null]
    /\ lastOp' = [op |-> "audio.error", arg |-> i, res |-> Null]
    /\ UNCHANGED <<lookups, callLog>>
    /\ PlayerFrame

NextPlayer ==
    \/ \E qari \in {"", "misyari_rasyid_al_afasy"} : QariChange(qari)
    \/ \E ayatNumber \in {1, 3} : PlayAyatAudio(ayatNumber)
    \/ \E call \in lookups : \E response \in SuratResponses(call.surat) :
          LookupSettles(call, response)
    \/ PauseCurrentAudio
    \/ StopCurrentAudio
    \/ \E i \in DOMAIN audios : AudioLoaded(i)
    \/ \E i \in DOMAIN audios : AudioEnded(i)
    \/ \E i \in DOMAIN audios : AudioError(i)

SpecPlayer == InitPlayer /\ [][NextPlayer]_vars

\* the elements started and not yet stopped, ended or failed
Started == {i \in DOMAIN audios : audios[i].status \in {"playing", "paused"}}

\* C24: at most one audio element is started and not yet stopped or ended, and
\* that element is the one state.currentAudio refers to.
C24_AudioSingleton ==
    /\ Cardinality(Started) <= 1
    /\ \A i \in Started : state.currentAudio = [element |-> i]

====
